---- MODULE Spec2Model ----
(***************************************************************************)
(* Veyon installer suite: the teacher and student install workflows, the   *)
(* key provisioner (generate_veyon_keys), the key staging step             *)
(* (copy_veyon_keys) and the key distributor (distribute_keys_to_veyon).   *)
(*                                                                         *)
(* Strings are sequences of one-character strings, so that lower(),        *)
(* strip(), split() and the substring / regular-expression tests of the    *)
(* source are computed and not assumed.                                    *)
(***************************************************************************)
EXTENDS Integers, Sequences, FiniteSets, TLC

(***************************************************************************)
(* String helpers (Python str methods used by the scripts)                 *)
(***************************************************************************)

\* str.lower() on one character
LowerChar(c) ==
    CASE c = "A" -> "a" [] c = "B" -> "b" [] c = "C" -> "c" [] c = "D" -> "d"
      [] c = "E" -> "e" [] c = "F" -> "f" [] c = "G" -> "g" [] c = "H" -> "h"
      [] c = "I" -> "i" [] c = "J" -> "j" [] c = "K" -> "k" [] c = "L" -> "l"
      [] c = "M" -> "m" [] c = "N" -> "n" [] c = "O" -> "o" [] c = "P" -> "p"
      [] c = "Q" -> "q" [] c = "R" -> "r" [] c = "S" -> "s" [] c = "T" -> "t"
      [] c = "U" -> "u" [] c = "V" -> "v" [] c = "W" -> "w" [] c = "X" -> "x"
      [] c = "Y" -> "y" [] c = "Z" -> "z" [] OTHER -> c

\* str.lower()
Lower(s) == [i \in 1..Len(s) |-> LowerChar(s[i])]

\* `sub in s`
Contains(sub, s) ==
    \E i \in 1..(Len(s) - Len(sub) + 1) :
        \A j \in 1..Len(sub) : s[i + j - 1] = sub[j]

\* a string of n copies of the character c
Rep(c, n) == [i \in 1..n |-> c]

\* str.strip(): leading and trailing whitespace removed
IsSpace(c) == c \in {" ", "\t", "\n", "\r"}

RECURSIVE LStrip(_)
LStrip(s) == IF s # <<>> /\ IsSpace(Head(s)) THEN LStrip(Tail(s)) ELSE s

RECURSIVE RStrip(_)
RStrip(s) ==
    IF s # <<>> /\ IsSpace(s[Len(s)]) THEN RStrip(SubSeq(s, 1, Len(s) - 1)) ELSE s

Strip(s) == RStrip(LStrip(s))

\* text.split('\n')
RECURSIVE SplitLines(_)
SplitLines(text) ==
    IF \E i \in 1..Len(text) : text[i] = "\n"
    THEN LET i == CHOOSE k \in 1..Len(text) :
                      text[k] = "\n" /\ \A m \in 1..(k - 1) : text[m] # "\n"
         IN  <<SubSeq(text, 1, i - 1)>> \o SplitLines(SubSeq(text, i + 1, Len(text)))
    ELSE <<text>>

(***************************************************************************)
(* SHA256 text and find_checksum_in_text                                   *)
(***************************************************************************)

\* the width of the pattern [A-Fa-f0-9]{64}
HexDigits == 64

HexChars == {"0", "1", "2", "3", "4", "5", "6", "7", "8", "9",
             "a", "b", "c", "d", "e", "f", "A", "B", "C", "D", "E", "F"}

\* \w of the regular expression: letters, digits and underscore
WordChars == HexChars \cup
    {"g", "h", "i", "j", "k", "l", "m", "n", "o", "p", "q", "r", "s", "t",
     "u", "v", "w", "x", "y", "z", "G", "H", "I", "J", "K", "L", "M", "N",
     "O", "P", "Q", "R", "S", "T", "U", "V", "W", "X", "Y", "Z", "_"}

\* the positions where \b([A-Fa-f0-9]{64})\b matches in a line
HexMatchAt(line, i) ==
    /\ i >= 1
    /\ i + HexDigits - 1 <= Len(line)
    /\ \A j \in i..(i + HexDigits - 1) : line[j] \in HexChars
    /\ (i = 1 \/ line[i - 1] \notin WordChars)
    /\ (i + HexDigits - 1 = Len(line) \/ line[i + HexDigits] \notin WordChars)

\* the absent value (Python None) of a string-valued variable
None == <<"None">>

\* re.search(...).group(1): the leftmost match, or None
HexSearch(line) ==
    IF \E i \in 1..Len(line) : HexMatchAt(line, i)
    THEN LET i == CHOOSE k \in 1..Len(line) :
                      HexMatchAt(line, k) /\ \A m \in 1..(k - 1) : ~HexMatchAt(line, m)
         IN  SubSeq(line, i, i + HexDigits - 1)
    ELSE None

RECURSIVE ScanLines(_, _, _)
ScanLines(lines, filename, checksum) ==
    IF lines = <<>> THEN checksum
    ELSE LET line == Head(lines)
             match == HexSearch(line)
         IN  IF match # None
             THEN LET hash_value == Lower(match)
                  IN  IF Contains(filename, line) THEN hash_value
                      ELSE ScanLines(Tail(lines), filename,
                                     IF checksum = None THEN hash_value ELSE checksum)
             ELSE ScanLines(Tail(lines), filename, checksum)

\* a scan in which every line counts as naming the file
find_checksum_ignoring_filename(text, filename) ==
    ScanLines(SplitLines(text), <<>>, None)

find_checksum_in_text(text, filename) ==
    ScanLines(SplitLines(text), filename, None)

(***************************************************************************)
(* Release metadata served by the release API                              *)
(***************************************************************************)

PLATFORM_TOKEN == <<"w", "i", "n", "6", "4">>
NameWin64 == <<"v", "-", "w", "i", "n", "6", "4", ".", "e", "x", "e">>
UrlWin64 == <<"u", "/", "v", "-", "w", "i", "n", "6", "4", ".", "e", "x", "e">>
NameWin64Upper == <<"V", "-", "W", "i", "n", "6", "4", ".", "E", "X", "E">>
UrlWin64Upper == <<"u", "/", "V", "-", "W", "i", "n", "6", "4", ".", "E", "X", "E">>
NameWin32 == <<"v", "-", "w", "i", "n", "3", "2", ".", "e", "x", "e">>
UrlWin32 == <<"u", "/", "v", "-", "w", "i", "n", "3", "2", ".", "e", "x", "e">>
NameSetup == <<"s", "e", "t", "u", "p", ".", "e", "x", "e">>
UrlSetup == <<"u", "/", "w", "i", "n", "6", "4", "/", "s", "e", "t", "u", "p", ".", "e", "x", "e">>
NameSums == <<"S", "H", "A", "2", "5", "6", "S", "U", "M", "S">>
UrlSums == <<"u", "/", "S", "H", "A", "2", "5", "6", "S", "U", "M", "S">>

AssetWin64 == [name |-> NameWin64, browser_download_url |-> UrlWin64]
AssetWin64Upper == [name |-> NameWin64Upper, browser_download_url |-> UrlWin64Upper]
AssetWin32 == [name |-> NameWin32, browser_download_url |-> UrlWin32]
AssetSetup == [name |-> NameSetup, browser_download_url |-> UrlSetup]
AssetSums == [name |-> NameSums, browser_download_url |-> UrlSums]

\* SHA256 digests as hexdigest() prints them, and one published in capitals
HashA == Rep("a", HexDigits)
HashB == Rep("b", HexDigits)
HashAUpper == Rep("A", HexDigits)

\* the digests a downloaded installer can have
FileHashes == {HashA, HashB}

\* checksum texts: "<hash>  <filename>" lines, a bare hash, and prose
TextNamesWin64A == HashB \o <<" ", " ">> \o NameWin32 \o <<"\n">>
                     \o HashAUpper \o <<" ", " ">> \o NameWin64 \o <<"\n">>
TextBareB == <<"s", "h", "a", ":", " ">> \o HashB
TextProse == <<"n", "o", "t", "e", "s", "\n", "v", "1">>

\* the release JSON (assets, body) and the text served for its checksum asset
TagV1 == <<"v", "1">>

Releases ==
    { [tag_name |-> TagV1, assets |-> <<>>, body |-> None, sums |-> None],
      [tag_name |-> TagV1, assets |-> <<AssetWin32, AssetSums>>, body |-> None, sums |-> TextNamesWin64A],
      [tag_name |-> TagV1, assets |-> <<AssetWin64>>, body |-> None, sums |-> None],
      [tag_name |-> TagV1, assets |-> <<AssetWin64>>, body |-> TextBareB, sums |-> None],
      [tag_name |-> TagV1, assets |-> <<AssetWin64, AssetSums>>, body |-> None, sums |-> TextNamesWin64A],
      [tag_name |-> TagV1, assets |-> <<AssetSums, AssetWin64>>, body |-> TextBareB, sums |-> TextProse],
      [tag_name |-> TagV1, assets |-> <<AssetWin32, AssetWin64Upper>>, body |-> TextProse, sums |-> None],
      [tag_name |-> TagV1, assets |-> <<AssetSetup, AssetWin64>>, body |-> None, sums |-> None] }

\* 'win64' in asset['name'].lower() or 'win64' in asset['browser_download_url'].lower()
MatchesWin64Teacher(a) ==
    \/ Contains(PLATFORM_TOKEN, Lower(a.name))
    \/ Contains(PLATFORM_TOKEN, Lower(a.browser_download_url))

\* "win64" in a["name"].lower()
MatchesWin64Student(a) == Contains(PLATFORM_TOKEN, Lower(a.name))

\* the absent value (Python None) of an asset-valued variable
NoAsset == [name |-> None, browser_download_url |-> None]

\* the first asset of the list whose entry of `matches` is TRUE, or NoAsset
FirstAsset(assets, matches) ==
    IF \E i \in 1..Len(assets) : matches[i]
    THEN assets[CHOOSE i \in 1..Len(assets) :
                    matches[i] /\ \A j \in 1..(i - 1) : ~matches[j]]
    ELSE NoAsset

\* install_teacher: the for loop that picks asset64
SelectAsset64(assets) ==
    FirstAsset(assets, [i \in 1..Len(assets) |-> MatchesWin64Teacher(assets[i])])

\* a selection that falls back to the first asset when none matches
SelectFirstWhenNoMatch(assets) ==
    LET found == FirstAsset(assets, [i \in 1..Len(assets) |-> MatchesWin64Student(assets[i])])
    IN  IF found # NoAsset THEN found
        ELSE IF assets # <<>> THEN assets[1] ELSE NoAsset

\* install_student: next(a for a in release["assets"] if ...); NoAsset stands
\* for StopIteration
SelectAssetStudent(assets) ==
    FirstAsset(assets, [i \in 1..Len(assets) |-> MatchesWin64Student(assets[i])])

KW_sha256 == <<"s", "h", "a", "2", "5", "6">>
KW_checksum == <<"c", "h", "e", "c", "k", "s", "u", "m">>
KW_hash == <<"h", "a", "s", "h">>
KW_sum == <<"s", "u", "m">>

\* any(keyword in name_lower for keyword in ['sha256', 'checksum', 'hash', 'sum'])
IsChecksumAsset(a) ==
    \E kw \in {KW_sha256, KW_checksum, KW_hash, KW_sum} : Contains(kw, Lower(a.name))

\* install_teacher, "Try to find checksum": the checksum asset's text when its
\* download succeeded, else the release body
ObtainChecksum(rel, filename, fetchOk) ==
    LET checksum_asset ==
            FirstAsset(rel.assets, [i \in 1..Len(rel.assets) |-> IsChecksumAsset(rel.assets[i])])
        fromAsset == IF checksum_asset # NoAsset /\ fetchOk /\ rel.sums # None
                     THEN find_checksum_in_text(rel.sums, filename)
                     ELSE None
    IN  IF fromAsset = None /\ rel.body # None
        THEN find_checksum_in_text(rel.body, filename)
        ELSE fromAsset

\* if checksum_asset: one of the assets has a checksum keyword in its name
HasChecksumAsset(rel) ==
    \E i \in 1..Len(rel.assets) : IsChecksumAsset(rel.assets[i])

\* the reference checksum the release publishes for the file: what the lookup
\* above yields when the checksum asset can be fetched
PublishedChecksum(rel, filename) == ObtainChecksum(rel, filename, TRUE)

\* if checksum: if local_hash != checksum: raise
ChecksumMismatchNever(checksum, local_hash) == FALSE

ChecksumMismatch(checksum, local_hash) ==
    checksum # None /\ local_hash # checksum

(***************************************************************************)
(* Key directories: <PROGRAMDATA>/Veyon/keys and <root>/keys               *)
(***************************************************************************)

\* the files a key directory can hold, by a short name
FileIds == {"priv", "pub", "bak", "pubT"}

\* str(f) of each file, relative to the directory's parent
PathOf(f) ==
    CASE f = "priv" -> <<"k", "e", "y", "s", "/", "p", "r", "i", "v", "a", "t", "e", "/",
                         "s", "u", "p", "e", "r", "v", "i", "s", "o", "r", "/", "k", "e", "y">>
      [] f = "pub"  -> <<"k", "e", "y", "s", "/", "p", "u", "b", "l", "i", "c", "/",
                         "s", "u", "p", "e", "r", "v", "i", "s", "o", "r", "/", "k", "e", "y">>
      [] f = "bak"  -> <<"k", "e", "y", "s", "/", "o", "l", "d", "/",
                         "P", "r", "i", "v", "a", "t", "e", ".", "p", "e", "m">>
      [] f = "pubT" -> <<"k", "e", "y", "s", "/", "p", "u", "b", "l", "i", "c", "/",
                         "t", "e", "a", "c", "h", "e", "r", "/", "k", "e", "y">>

TOKEN_private == <<"p", "r", "i", "v", "a", "t", "e">>
TOKEN_public == <<"p", "u", "b", "l", "i", "c">>

\* file contents; NoFile marks a file that is not there
Contents == {"k1", "k2"}
NoFile == "-"

NoDir == [exists |-> FALSE, files |-> [f \in FileIds |-> NoFile]]
EmptyDir == [exists |-> TRUE, files |-> [f \in FileIds |-> NoFile]]

\* a directory holding the files of S, each with content c
DirWith(S, c) == [exists |-> TRUE, files |-> [f \in FileIds |-> IF f \in S THEN c ELSE NoFile]]

\* Path.exists() of a file of the directory
DirHas(d, f) == d.exists /\ d.files[f] # NoFile

\* [f for f in keys_dir.rglob('*') if f.is_file()]
FilesOf(d) == IF d.exists THEN {f \in FileIds : d.files[f] # NoFile} ELSE {}

\* shutil.copytree(src, dst) into a destination that does not exist
CopyTree(src) == [exists |-> TRUE, files |-> src.files]

\* a tree of which only the files of S were copied
CopyPart(src, S) ==
    [exists |-> TRUE, files |-> [f \in FileIds |-> IF f \in S THEN src.files[f] ELSE NoFile]]

\* a tree of which the files of S were removed and the rest is left
RemovePart(d, S) ==
    [exists |-> TRUE, files |-> [f \in FileIds |-> IF f \in S THEN NoFile ELSE d.files[f]]]

\* the order in which a directory walk meets the files ("old" < "private" < "public")
WalkOrder == <<"bak", "priv", "pub", "pubT">>

\* the files of F a walk has handled when it stops early: a prefix of the walk
PartialSets(F) ==
    {F \cap {WalkOrder[i] : i \in 1..n} : n \in 0..Len(WalkOrder)}

\* private_key.exists() and public_key.exists()
SupervisorKeysExist(d) == DirHas(d, "priv") /\ DirHas(d, "pub")

\* private_keys and public_keys: files whose lowered path holds the token
AnyPrivateAndPublic(d) ==
    /\ \E f \in FilesOf(d) : Contains(TOKEN_private, Lower(PathOf(f)))
    /\ \E f \in FilesOf(d) : Contains(TOKEN_public, Lower(PathOf(f)))

\* generate_veyon_keys, the checks made before any CLI call
InitialKeyCheckSkipped(d) == FALSE

InitialKeyCheck(d) ==
    d.exists /\ (SupervisorKeysExist(d) \/ AnyPrivateAndPublic(d))

\* a test that asks for three key files
EnoughKeyFilesThree(d) == Cardinality(FilesOf(d)) >= 3

\* len(key_files) >= 2 after the CLI said "already exist"
EnoughKeyFiles(d) == Cardinality(FilesOf(d)) >= 2

max_attempts == 3

\* what one run of `veyon-cli authkeys create supervisor` can do: its stderr
\* says "already exist", or it exits 0 or non-zero, or it times out, or
\* subprocess.run raises; it may have written the two key files
CreateOutcomes ==
    { [kind |-> "already", wrote |-> FALSE],
      [kind |-> "exception", wrote |-> FALSE] }
    \cup [kind : {"rc0", "rcN", "timeout"}, wrote : BOOLEAN]

\* what `veyon-cli authkeys delete supervisor` can do
DeleteOutcomes == {"deleted", "nothing", "timeout"}

\* the key directory after the CLI wrote a new supervisor pair
CliWrite(d) ==
    [exists |-> TRUE,
     files |-> [f \in FileIds |-> IF f \in {"priv", "pub"} THEN "k1" ELSE d.files[f]]]

\* the key directory after the CLI deleted the supervisor pair
CliDelete(d) ==
    IF d.exists THEN RemovePart(d, {"priv", "pub"}) ELSE d

(***************************************************************************)
(* State                                                                   *)
(***************************************************************************)

\* the number of script runs explored
MaxRuns == 2

VARIABLES
    pc,          \* the position of the running script, "idle" between runs
    run,         \* the current (or last) run: script, privileges, what it did
    net,         \* release metadata, selected asset, reference checksum, file digest
    veyonKeys,   \* <PROGRAMDATA>/Veyon/keys
    stagedKeys,  \* <root>/keys
    veyonCli,    \* whether veyon-cli.exe exists at one of the probed paths
    gen,         \* the generate_veyon_keys call of this run
    cpy,         \* the copy_veyon_keys call of this run
    dist,        \* the distribute_keys_to_veyon call of this run
    robocopy,    \* whether an elevated robocopy was launched and has not run yet
    runs,        \* the number of runs started
    idem,        \* consecutive generate_veyon_keys calls that found both keys
    uninstallerExe, \* whether uninstall.exe exists at one of the probed paths
    programData, \* whether <PROGRAMDATA>/Veyon, the parent of veyonKeys, exists
    un,          \* the uninstall_veyon call of this run
    cs,          \* a find_checksum_in_text call: its arguments and its result
    menu         \* the loop of menu.main: its last iteration and how it ended

vars == <<pc, run, net, veyonKeys, stagedKeys, veyonCli, gen, cpy, dist, robocopy,
          runs, idem, uninstallerExe, programData, un, cs, menu>>

RunIdle == [script |-> "none", launcher |-> "none", admin |-> FALSE,
            downloaded |-> FALSE, mismatch |-> FALSE, netfail |-> "none",
            elevation |-> "none", spawned |-> FALSE, exited |-> FALSE,
            exit_code |-> "none", outcome |-> "none"]
NetIdle == [release |-> [tag_name |-> None, assets |-> <<>>, body |-> None, sums |-> None],
            asset |-> NoAsset, checksum |-> None, file_sha256 |-> None]
GenIdle == [called |-> FALSE, returned |-> FALSE, attempt |-> 0, creates |-> 0,
            deletes |-> 0, result |-> FALSE, pre |-> NoDir, post |-> NoDir,
            by |-> "none", already |-> FALSE]
CpyIdle == [called |-> FALSE, result |-> FALSE, src |-> NoDir, pre |-> NoDir,
            post |-> NoDir, copied |-> FALSE, overOld |-> FALSE, elevated |-> 0,
            denied |-> FALSE, helpers |-> 0, helper |-> "none"]
DistIdle == [called |-> FALSE, result |-> "none", src |-> NoDir, pre |-> NoDir,
             post |-> NoDir, copied |-> FALSE, prompts |-> 0, elevations |-> 0,
             via |-> "none", answer |-> None]
UnIdle == [called |-> FALSE, steps |-> <<>>, spawns |-> 0, prompts |-> 0,
           sc |-> "none", found |-> FALSE, wait |-> "none", proc |-> "none",
           uninstall_success |-> "none", response |-> None, purge |-> "none",
           pre |-> NoDir, post |-> NoDir, preData |-> FALSE, postData |-> FALSE,
           result |-> FALSE, purgeBy |-> "none"]
CsIdle == [lines |-> <<>>, filename |-> <<>>, checksum |-> None, done |-> FALSE]
MenuIdle == [state |-> "off", admin_status |-> FALSE, lib |-> {}, iter |-> 0,
             choice |-> None, scripts |-> <<>>, ran |-> "none", entry |-> "none",
             outcome |-> "none", end |-> "none"]

\* the key directories a machine can start with
InitVeyonKeys ==
    { NoDir, EmptyDir,
      DirWith({"priv", "pub"}, "k1"),
      DirWith({"pub", "pubT"}, "k1"),
      DirWith({"bak", "pubT"}, "k1"),
      DirWith({"pub"}, "k1") }

\* the staged directories a machine can start with: none, one staged by a
\* teacher run elsewhere, one with the public key only, one without it
InitStagedKeys ==
    { NoDir,
      DirWith({"priv", "pub"}, "k2"),
      DirWith({"pub"}, "k2"),
      DirWith({"priv"}, "k2") }

Init ==
    /\ pc = "idle"
    /\ run = RunIdle
    /\ net = NetIdle
    /\ veyonKeys \in InitVeyonKeys
    /\ stagedKeys \in InitStagedKeys
    /\ veyonCli \in BOOLEAN
    /\ gen = GenIdle
    /\ cpy = CpyIdle
    /\ dist = DistIdle
    /\ robocopy = FALSE
    /\ runs = 0
    /\ idem = 0
    /\ uninstallerExe = veyonCli
    /\ programData \in {b \in BOOLEAN : veyonKeys.exists => b}
    /\ un = UnIdle
    /\ cs = CsIdle
    /\ menu = MenuIdle

\* the except clause of the entry point: log, then re-raise
Raise ==
    /\ pc' = "idle"
    /\ run' = [run EXCEPT !.outcome = "raised"]

\* how a workflow function gets called: by the __main__ block of its script,
\* or by menu.run_script
Launchers == {"direct", "menu"}

\* a network request raised (requests.get, raise_for_status): the same, with
\* the request that failed recorded
RaiseNet(request) ==
    /\ pc' = "idle"
    /\ run' = [run EXCEPT !.outcome = "raised", !.netfail = request]

\* the operator starts install_teacher, install_student or uninstall_veyon
\* (menu.run_script or the script's __main__ block)
RunScript(s) ==
    /\ pc = "idle"
    /\ runs < MaxRuns
    /\ runs' = runs + 1
    /\ pc' = CASE s = "teacher" -> "t_fetch"
              [] s = "student" -> "s_fetch"
              [] s = "uninstall" -> "u_stop"
    /\ \E launcher \in Launchers :
         run' = [RunIdle EXCEPT !.script = s, !.launcher = launcher,
                                !.outcome = "running"]
    /\ net' = NetIdle
    /\ gen' = GenIdle
    /\ cpy' = CpyIdle
    /\ dist' = DistIdle
    /\ un' = UnIdle
    /\ UNCHANGED <<veyonKeys, stagedKeys, veyonCli, robocopy, idem, uninstallerExe,
                   programData, cs, menu>>

\* what becomes of the process once the workflow function has ended: the
\* __main__ block lets an exception end the process (non-zero status), while
\* menu.run_script logs it, prints "Script error" and goes back to the menu
ProcessStatus(r) ==
    CASE r.outcome \in {"none", "running"} -> "running"
      [] r.launcher = "menu" -> "menu_loop"
      [] r.outcome = "raised" -> "exit_nonzero"
      [] OTHER -> "exit_zero"

(***************************************************************************)
(* install_teacher                                                         *)
(***************************************************************************)

\* requests.get(api_url); raise_for_status(); release.json()
T_Fetch ==
    /\ pc = "t_fetch"
    /\ \E ok \in BOOLEAN, rel \in Releases :
         IF ok
         THEN /\ net' = [net EXCEPT !.release = rel]
              /\ pc' = "t_select"
              /\ UNCHANGED run
         ELSE RaiseNet("metadata") /\ UNCHANGED net
    /\ UNCHANGED <<veyonKeys, stagedKeys, veyonCli, gen, cpy, dist, robocopy, runs, idem, uninstallerExe, programData, un, cs, menu>>

\* "Find win64 installer asset"
T_Select ==
    /\ pc = "t_select"
    /\ LET assets == net.release.assets
           asset64 == SelectAsset64(assets)
       IN  IF assets = <<>> \/ asset64 = NoAsset
           THEN Raise /\ UNCHANGED net
           ELSE /\ net' = [net EXCEPT !.asset = asset64]
                /\ pc' = "t_checksum"
                /\ UNCHANGED run
    /\ UNCHANGED <<veyonKeys, stagedKeys, veyonCli, gen, cpy, dist, robocopy, runs, idem, uninstallerExe, programData, un, cs, menu>>

\* "Try to find checksum": the checksum asset, then the release body; a
\* failed download of the checksum asset is caught and logged as a warning
T_Checksum ==
    /\ pc = "t_checksum"
    /\ \E fetchOk \in BOOLEAN :
         /\ net' = [net EXCEPT !.checksum = ObtainChecksum(net.release, net.asset.name, fetchOk)]
         /\ run' = IF HasChecksumAsset(net.release) /\ ~fetchOk
                   THEN [run EXCEPT !.netfail = "checksum"]
                   ELSE run
    /\ pc' = "t_download"
    /\ UNCHANGED <<veyonKeys, stagedKeys, veyonCli, gen, cpy, dist, robocopy, runs, idem, uninstallerExe, programData, un, cs, menu>>

\* download_file_with_progress(download_url, output_file)
T_Download ==
    /\ pc = "t_download"
    /\ \E ok \in BOOLEAN, h \in FileHashes :
         IF ok
         THEN /\ net' = [net EXCEPT !.file_sha256 = h]
              /\ run' = [run EXCEPT !.downloaded = TRUE,
                                    !.mismatch = (net.checksum # None /\ net.checksum # h)]
              /\ pc' = "t_verify"
         ELSE RaiseNet("installer") /\ UNCHANGED net
    /\ UNCHANGED <<veyonKeys, stagedKeys, veyonCli, gen, cpy, dist, robocopy, runs, idem, uninstallerExe, programData, un, cs, menu>>

\* "Verify SHA256": local_hash = get_file_sha256(output_file)
T_Verify ==
    /\ pc = "t_verify"
    /\ LET local_hash == net.file_sha256
       IN  IF ChecksumMismatch(net.checksum, local_hash)
           THEN Raise
           ELSE pc' = "t_launch" /\ UNCHANGED run
    /\ net' = NetIdle
    /\ UNCHANGED <<veyonKeys, stagedKeys, veyonCli, gen, cpy, dist, robocopy, runs, idem, uninstallerExe, programData, un, cs, menu>>

\* ShellExecuteW reports success with a value above 32
SE_ERR_LIMIT == 32
ShellExecuteResults == {5, 32, 33, 42}

\* a test that takes every non-zero value for success
ShellExecuteOkNonZero(result) == result > 0

\* the caller's test of the value: `if result <= 32: raise`, `if ret > 32`
ShellExecuteOk(result) == result > SE_ERR_LIMIT

\* the installer puts veyon-cli.exe and uninstall.exe in place, or has not
\* (yet) done so
InstallerEffect ==
    \E installed \in BOOLEAN :
        /\ veyonCli' = (veyonCli \/ installed)
        /\ uninstallerExe' = (uninstallerExe \/ installed)

\* the installer was spawned; it has exited or not; an elevation that was
\* asked for was granted
Spawned(admin, hasExited) ==
    /\ run' = [run EXCEPT !.admin = admin, !.spawned = TRUE, !.exited = hasExited,
                          !.elevation = IF admin THEN "none" ELSE "granted"]
    /\ InstallerEffect

\* ShellExecuteEx returned no process handle: whatever was launched is not
\* tracked, and the run raises
SpawnedRaise(admin, hasExited) ==
    /\ run' = [run EXCEPT !.admin = admin, !.spawned = TRUE, !.exited = hasExited,
                          !.elevation = IF admin THEN "none" ELSE "failed",
                          !.outcome = "raised"]
    /\ InstallerEffect
    /\ pc' = "idle"

\* no installer was spawned and the run raises: Popen failed, or the
\* elevation was refused
NotSpawnedRaise(admin) ==
    /\ run' = [run EXCEPT !.admin = admin, !.outcome = "raised",
                          !.elevation = IF admin THEN "none" ELSE "failed"]
    /\ pc' = "idle"
    /\ UNCHANGED <<veyonCli, uninstallerExe>>

\* ShellExecuteW(None, "runas", installer, ...) returned `result`: a value of
\* 32 or less means the elevation was refused or failed and nothing runs;
\* `fatal` says whether the caller raises on this value
ShellExecuteInstall(result, hasExited, fatal) ==
    LET launched == result > SE_ERR_LIMIT
    IN  /\ run' = [run EXCEPT !.admin = FALSE, !.spawned = launched,
                              !.exited = launched /\ hasExited,
                              !.elevation = IF launched THEN "granted" ELSE "failed",
                              !.outcome = IF fatal THEN "raised" ELSE @]
        /\ IF launched THEN InstallerEffect ELSE UNCHANGED <<veyonCli, uninstallerExe>>

\* already elevated: subprocess.Popen, process.wait(), exit_code =
\* process.returncode; `fatal` says whether the caller raises on this code
DirectInstall(exit_code, fatal) ==
    /\ run' = [run EXCEPT !.admin = TRUE, !.spawned = TRUE, !.exited = TRUE,
                          !.exit_code = exit_code,
                          !.outcome = IF fatal THEN "raised" ELSE @]
    /\ InstallerEffect

\* "Run installer silently", up to the clean-up of the temp installer
T_Launch ==
    /\ pc = "t_launch"
    /\ \E win32 \in BOOLEAN, is_admin \in BOOLEAN, pywin32 \in BOOLEAN :
         IF ~win32
         THEN \* "Not running on Windows - skipping installation"
              /\ is_admin = FALSE /\ pywin32 = FALSE
              /\ pc' = "t_generate"
              /\ UNCHANGED <<run, veyonCli, uninstallerExe>>
         ELSE IF is_admin
         THEN \* subprocess.Popen; process.wait(); non-zero exit code raises
              /\ pywin32 = FALSE
              /\ \E popen \in {"oserror", "exit0", "exitN"} :
                   CASE popen = "oserror" -> NotSpawnedRaise(TRUE)
                     [] popen = "exitN" ->
                          \* if exit_code != 0: raise
                          DirectInstall("nonzero", TRUE) /\ pc' = "idle"
                     [] popen = "exit0" ->
                          DirectInstall("zero", FALSE) /\ pc' = "t_generate"
         ELSE IF pywin32
         THEN \* ShellExecuteEx with runas; wait on the process handle
              \E sei \in {"error", "nohandle", "handle"} :
                   CASE sei = "error" -> NotSpawnedRaise(FALSE)
                     [] sei = "nohandle" -> SpawnedRaise(FALSE, FALSE)
                     [] sei = "handle" -> Spawned(FALSE, TRUE) /\ pc' = "t_generate"
         ELSE \* ShellExecuteW with runas, then time.sleep(30)
              \E result \in ShellExecuteResults, hasExited \in BOOLEAN :
                   /\ (result <= SE_ERR_LIMIT => ~hasExited)
                   /\ IF ShellExecuteOk(result)
                      THEN ShellExecuteInstall(result, hasExited, FALSE) /\ pc' = "t_generate"
                      ELSE ShellExecuteInstall(result, hasExited, TRUE) /\ pc' = "idle"
    /\ UNCHANGED <<net, veyonKeys, stagedKeys, gen, cpy, dist, robocopy, runs, idem,
                   programData, un, cs, menu>>

(***************************************************************************)
(* generate_veyon_keys                                                     *)
(***************************************************************************)

\* generate_veyon_keys returns: the result, the branch that returned it and
\* the key directory at that moment are recorded
GenReturn(g, result, by, d) ==
    /\ gen' = [g EXCEPT !.returned = TRUE, !.result = result, !.by = by, !.post = d]
    /\ veyonKeys' = d
    /\ pc' = "t_generated"

\* the call, the checks before any CLI call, and the search for veyon-cli.exe
T_Generate ==
    /\ pc = "t_generate"
    /\ LET g == [GenIdle EXCEPT !.called = TRUE, !.pre = veyonKeys]
       IN  IF InitialKeyCheck(veyonKeys)
           THEN GenReturn(g, TRUE, "initial", veyonKeys)
           ELSE IF ~veyonCli
           THEN GenReturn(g, FALSE, "no_cli", veyonKeys)
           ELSE /\ gen' = g
                /\ pc' = "g_attempt"
                /\ UNCHANGED veyonKeys
    /\ idem' = IF SupervisorKeysExist(veyonKeys) THEN idem + 1 ELSE 0
    /\ UNCHANGED <<run, net, stagedKeys, veyonCli, cpy, dist, robocopy, runs, uninstallerExe, programData, un, cs, menu>>

\* one iteration of `while attempt < max_attempts`
G_Attempt ==
    /\ pc = "g_attempt"
    /\ gen.attempt < max_attempts
    /\ \E out \in CreateOutcomes :
         LET d == IF out.wrote THEN CliWrite(veyonKeys) ELSE veyonKeys
             \* "already exist" in result.stderr.lower()
             g == [gen EXCEPT !.attempt = @ + 1, !.creates = @ + 1,
                              !.already = (out.kind = "already")]
         IN  CASE out.kind = "already" ->
                    IF SupervisorKeysExist(d)
                    THEN GenReturn(g, TRUE, "already_verified", d)
                    ELSE IF EnoughKeyFiles(d)
                    THEN GenReturn(g, TRUE, "file_count", d)
                    ELSE \E del \in DeleteOutcomes :
                           /\ gen' = [g EXCEPT !.deletes = @ + 1]
                           /\ veyonKeys' = IF del = "deleted" THEN CliDelete(d) ELSE d
                           /\ pc' = "g_attempt"
               [] out.kind = "rc0" ->
                    IF SupervisorKeysExist(d)
                    THEN GenReturn(g, TRUE, "created", d)
                    ELSE gen' = g /\ veyonKeys' = d /\ pc' = "g_attempt"
               [] out.kind \in {"rcN", "timeout", "exception"} ->
                    gen' = g /\ veyonKeys' = d /\ pc' = "g_attempt"
    /\ programData' = (programData \/ veyonKeys'.exists)
    /\ UNCHANGED <<run, net, stagedKeys, veyonCli, cpy, dist, robocopy, runs, idem,
                   uninstallerExe, un, cs, menu>>

\* after the loop: "Last resort - check one more time if keys exist"
G_Exhausted ==
    /\ pc = "g_attempt"
    /\ gen.attempt >= max_attempts
    /\ IF SupervisorKeysExist(veyonKeys)
       THEN GenReturn(gen, TRUE, "last_resort", veyonKeys)
       ELSE GenReturn(gen, FALSE, "exhausted", veyonKeys)
    /\ UNCHANGED <<run, net, stagedKeys, veyonCli, cpy, dist, robocopy, runs, idem, uninstallerExe, programData, un, cs, menu>>

\* the record of a call once its caller has taken the result: the locals of
\* the call are gone, that it was made and what it returned stay
Returned(call) ==
    [f \in DOMAIN call |->
        IF f \in {"called", "returned", "result"} THEN call[f]
        ELSE IF f \in {"pre", "post", "src"} THEN NoDir
        ELSE IF f \in {"by", "via", "helper"} THEN "none"
        ELSE IF f = "answer" THEN None
        ELSE IF f \in {"copied", "overOld", "denied", "already"} THEN FALSE
        ELSE 0]

\* if not keys_generated: raise
KeyFailureIgnored(keys_generated) == FALSE

KeyFailureIsFatal(keys_generated) == ~keys_generated

T_KeysGenerated ==
    /\ pc = "t_generated"
    /\ IF KeyFailureIsFatal(gen.result)
       THEN Raise
       ELSE pc' = "t_copy" /\ UNCHANGED run
    /\ gen' = Returned(gen)
    /\ UNCHANGED <<net, veyonKeys, stagedKeys, veyonCli, cpy, dist, robocopy, runs, idem, uninstallerExe, programData, un, cs, menu>>

(***************************************************************************)
(* copy_veyon_keys                                                         *)
(***************************************************************************)

\* "Remove existing destination if it exists": shutil.rmtree, and on
\* PermissionError remove_directory_elevated; ok says whether the function
\* goes on to copy, elevated counts the elevated helpers spawned
RemoveOldOutcomes(dst) ==
    IF ~dst.exists
    THEN {[ok |-> TRUE, dst |-> dst, elevated |-> 0]}
    ELSE {[ok |-> TRUE, dst |-> NoDir, elevated |-> 0],
          [ok |-> TRUE, dst |-> NoDir, elevated |-> 1]}
         \* the elevated helper exits 0 and has left part of the tree
         \cup {[ok |-> TRUE, dst |-> RemovePart(dst, S), elevated |-> 1] :
                 S \in PartialSets(FilesOf(dst))}
         \* rmtree fails otherwise (e = 0), or the elevated helper fails (e = 1)
         \cup {[ok |-> FALSE, dst |-> RemovePart(dst, S), elevated |-> e] :
                 S \in PartialSets(FilesOf(dst)), e \in {0, 1}}

\* a copy step that goes on to the verification whatever
\* copy_directory_elevated returned
CopyOutcomesHelperUnchecked(src, dst) ==
    IF dst.exists
    THEN {[ok |-> FALSE, dst |-> dst, copied |-> FALSE, elevated |-> 0,
           denied |-> FALSE, helper |-> "none"]}
    ELSE {[ok |-> TRUE, dst |-> CopyTree(src), copied |-> TRUE, elevated |-> 0,
           denied |-> FALSE, helper |-> "none"]}
         \cup {[ok |-> FALSE, dst |-> CopyPart(src, S), copied |-> TRUE, elevated |-> 0,
                 denied |-> FALSE, helper |-> "none"] :
                 S \in PartialSets(FilesOf(src))}
         \cup {[ok |-> TRUE, dst |-> CopyPart(src, S), copied |-> TRUE, elevated |-> 1,
                 denied |-> TRUE, helper |-> IF k THEN "true" ELSE "false"] :
                 S \in PartialSets(FilesOf(src)), k \in BOOLEAN}
         \cup {[ok |-> TRUE, dst |-> NoDir, copied |-> FALSE, elevated |-> 1,
                 denied |-> TRUE, helper |-> "false"]}

\* "Copy entire directory tree": shutil.copytree, and on PermissionError
\* copy_directory_elevated; ok says whether the function goes on to verify,
\* denied whether copytree raised PermissionError, helper what
\* copy_directory_elevated returned (exit code 0 of the elevated PowerShell),
\* elevated how many times it was called
CopyOutcomes(src, dst) ==
    IF dst.exists
    THEN \* copytree raises FileExistsError
         {[ok |-> FALSE, dst |-> dst, copied |-> FALSE, elevated |-> 0,
           denied |-> FALSE, helper |-> "none"]}
    ELSE {[ok |-> TRUE, dst |-> CopyTree(src), copied |-> TRUE, elevated |-> 0,
           denied |-> FALSE, helper |-> "none"]}
         \* copytree raises shutil.Error after a partial copy
         \cup {[ok |-> FALSE, dst |-> CopyPart(src, S), copied |-> TRUE, elevated |-> 0,
                 denied |-> FALSE, helper |-> "none"] :
                 S \in PartialSets(FilesOf(src))}
         \* PermissionError, and the elevated Copy-Item exits with 0 or not
         \cup {[ok |-> k, dst |-> CopyPart(src, S), copied |-> TRUE, elevated |-> 1,
                 denied |-> TRUE, helper |-> IF k THEN "true" ELSE "false"] :
                 S \in PartialSets(FilesOf(src)), k \in BOOLEAN}
         \* PermissionError, and the elevation is refused or fails
         \cup {[ok |-> FALSE, dst |-> NoDir, copied |-> FALSE, elevated |-> 1,
                 denied |-> TRUE, helper |-> "false"]}

\* "Final verification"
FinalVerificationPrivateOnly(dest) == DirHas(dest, "priv")

FinalVerification(dest) == DirHas(dest, "priv") /\ DirHas(dest, "pub")

\* copy_veyon_keys(root_dir)
T_Copy ==
    /\ pc = "t_copy"
    /\ LET src == veyonKeys
           c0 == [CpyIdle EXCEPT !.called = TRUE, !.src = src, !.pre = stagedKeys]
       IN  IF ~src.exists \/ ~DirHas(src, "priv") \/ ~DirHas(src, "pub")
           THEN /\ cpy' = [c0 EXCEPT !.result = FALSE, !.post = stagedKeys]
                /\ UNCHANGED stagedKeys
           ELSE \E r \in RemoveOldOutcomes(stagedKeys) :
                  IF ~r.ok
                  THEN /\ stagedKeys' = r.dst
                       /\ cpy' = [c0 EXCEPT !.result = FALSE, !.post = r.dst,
                                            !.elevated = r.elevated]
                  ELSE \E c \in CopyOutcomes(src, r.dst) :
                         /\ stagedKeys' = c.dst
                         /\ cpy' = [c0 EXCEPT
                                      !.result = c.ok /\ FinalVerification(c.dst),
                                      !.post = c.dst,
                                      !.copied = c.copied,
                                      !.overOld = c.copied /\ r.dst.exists,
                                      !.elevated = r.elevated + c.elevated,
                                      !.denied = c.denied,
                                      !.helpers = c.elevated,
                                      !.helper = c.helper]
    /\ pc' = "t_copied"
    /\ UNCHANGED <<run, net, veyonKeys, veyonCli, gen, dist, robocopy, runs, idem, uninstallerExe, programData, un, cs, menu>>

\* if not keys_copied: raise; else return True
T_Finish ==
    /\ pc = "t_copied"
    /\ IF cpy.result
       THEN pc' = "idle" /\ run' = [run EXCEPT !.outcome = "returned"]
       ELSE Raise
    /\ cpy' = Returned(cpy)
    /\ UNCHANGED <<net, veyonKeys, stagedKeys, veyonCli, gen, dist, robocopy, runs, idem, uninstallerExe, programData, un, cs, menu>>

(***************************************************************************)
(* distribute_keys_to_veyon                                                *)
(***************************************************************************)

\* what the operator can type at "Wanna try with admin rights? (Y/n): "
Choices == { <<"y">>, <<"Y">>, <<" ", "Y", "e", "s", " ">>, <<>>, <<" ">>,
             <<"n">>, <<"n", "o">>, <<"y", "e", "p">> }

\* a test that takes everything but a plain no for consent
ConsentUnlessNo(answer) ==
    Lower(Strip(answer)) \notin { <<"n">>, <<"n", "o">> }

\* choice = input(...).strip().lower(); choice in ["y", "yes", ""]
Consent(answer) ==
    Lower(Strip(answer)) \in { <<"y">>, <<"y", "e", "s">>, <<>> }

\* the fail-fast checks: keys_source.exists() and public_key.exists()
StagedKeysUnchecked(keys_source) == TRUE

StagedPublicKeyPresent(keys_source) ==
    keys_source.exists /\ DirHas(keys_source, "pub")

\* a function without the `except PermissionError` clause: the denial goes
\* up to the caller
OnPermissionErrorRaises(d, admin, copied) ==
    {[result |-> "raise", dst |-> d, copied |-> copied, prompts |-> 0,
      elevations |-> 0, via |-> "denied_admin", answer |-> None]}

\* an `except PermissionError` clause without the is_admin() test: it asks
\* the operator in every case
OnPermissionErrorAlwaysAsks(d, admin, copied) ==
    {[result |-> "false", dst |-> d, copied |-> copied, prompts |-> 1,
      elevations |-> 0, via |-> "declined", answer |-> choice] :
       choice \in {a \in Choices : ~Consent(a)}}
    \cup {[result |-> IF ShellExecuteOk(ret) THEN "true" ELSE "false",
           dst |-> d, copied |-> copied, prompts |-> 1, elevations |-> 1,
           via |-> IF ShellExecuteOk(ret) THEN "robocopy" ELSE "uac_failed",
           answer |-> choice] :
            choice \in {a \in Choices : Consent(a)}, ret \in ShellExecuteResults}

\* `except PermissionError`: fail when already elevated, else ask the operator
\* and launch robocopy through ShellExecuteW with runas; d is the destination
\* as the failed attempt left it
OnPermissionError(d, admin, copied) ==
    IF admin
    THEN {[result |-> "false", dst |-> d, copied |-> copied, prompts |-> 0,
           elevations |-> 0, via |-> "denied_admin", answer |-> None]}
    ELSE {[result |-> "false", dst |-> d, copied |-> copied, prompts |-> 1,
           elevations |-> 0, via |-> "declined", answer |-> choice] :
            choice \in {a \in Choices : ~Consent(a)}}
         \cup {[result |-> IF ShellExecuteOk(ret) THEN "true" ELSE "false",
                dst |-> d, copied |-> copied, prompts |-> 1, elevations |-> 1,
                via |-> IF ShellExecuteOk(ret) THEN "robocopy" ELSE "uac_failed",
                answer |-> choice] :
                 choice \in {a \in Choices : Consent(a)}, ret \in ShellExecuteResults}

\* the try block: mkdir of the parent, rmtree of an existing destination,
\* copytree; "raise" stands for an exception other than PermissionError
\* (shutil.Error of a partial copy, another OSError), which the function lets
\* through
DirectCopyOutcomes(src, dst, admin) ==
    \* mkdir of the parent is denied
    OnPermissionError(dst, admin, FALSE)
    \cup
    \* rmtree is denied, or fails otherwise, after removing the files of S
    (IF dst.exists
     THEN UNION {OnPermissionError(RemovePart(dst, S), admin, FALSE) :
                   S \in PartialSets(FilesOf(dst))}
          \cup {[result |-> "raise", dst |-> RemovePart(dst, S), copied |-> FALSE,
                 prompts |-> 0, elevations |-> 0, via |-> "rmtree_error",
                 answer |-> None] :
                  S \in PartialSets(FilesOf(dst))}
     ELSE {})
    \cup
    \* copytree is denied before it creates anything
    OnPermissionError(NoDir, admin, TRUE)
    \cup
    \* copytree copies part of the tree and raises shutil.Error
    {[result |-> "raise", dst |-> CopyPart(src, S), copied |-> TRUE,
      prompts |-> 0, elevations |-> 0, via |-> "copy_error", answer |-> None] :
       S \in PartialSets(FilesOf(src))}
    \cup
    \* the copy succeeds
    {[result |-> "true", dst |-> CopyTree(src), copied |-> TRUE,
      prompts |-> 0, elevations |-> 0, via |-> "direct", answer |-> None]}

\* distribute_keys_to_veyon(root_path)
DistributeOutcomes(src, dst, admin) ==
    IF ~StagedPublicKeyPresent(src)
    THEN {[result |-> "false", dst |-> dst, copied |-> FALSE, prompts |-> 0,
           elevations |-> 0, via |-> "fail_fast", answer |-> None]}
    ELSE DirectCopyOutcomes(src, dst, admin)

(***************************************************************************)
(* install_student                                                         *)
(***************************************************************************)

\* requests.get(api_url).json(); release["tag_name"]
S_Fetch ==
    /\ pc = "s_fetch"
    /\ \E ok \in BOOLEAN, rel \in Releases :
         IF ok
         THEN /\ net' = [net EXCEPT !.release = rel]
              /\ pc' = "s_select"
              /\ UNCHANGED run
         ELSE Raise /\ UNCHANGED net
    /\ UNCHANGED <<veyonKeys, stagedKeys, veyonCli, gen, cpy, dist, robocopy, runs, idem, uninstallerExe, programData, un, cs, menu>>

\* asset = next(a for a in release["assets"] if "win64" in a["name"].lower())
S_Select ==
    /\ pc = "s_select"
    /\ LET asset == SelectAssetStudent(net.release.assets)
       IN  IF asset = NoAsset
           THEN Raise /\ UNCHANGED net
           ELSE /\ net' = [net EXCEPT !.asset = asset]
                /\ pc' = "s_download"
                /\ UNCHANGED run
    /\ UNCHANGED <<veyonKeys, stagedKeys, veyonCli, gen, cpy, dist, robocopy, runs, idem, uninstallerExe, programData, un, cs, menu>>

\* download_file_with_progress and the staging copy; the script computes no
\* digest and reads no checksum: whether the release publishes one that
\* differs from the file's digest is recorded as a fact about the download
S_Download ==
    /\ pc = "s_download"
    /\ \E ok \in BOOLEAN, h \in FileHashes :
         IF ok
         THEN /\ net' = NetIdle
              /\ run' = [run EXCEPT !.downloaded = TRUE,
                                    !.mismatch = (LET published ==
                                                        PublishedChecksum(net.release, net.asset.name)
                                                  IN  published # None /\ published # h)]
              /\ pc' = "s_launch"
         ELSE Raise /\ UNCHANGED net
    /\ UNCHANGED <<veyonKeys, stagedKeys, veyonCli, gen, cpy, dist, robocopy, runs, idem, uninstallerExe, programData, un, cs, menu>>

\* already_admin = is_admin(), the installer launch, the clean-up
S_Launch ==
    /\ pc = "s_launch"
    /\ \E win32 \in BOOLEAN, elevated \in BOOLEAN, pywin32 \in BOOLEAN :
         LET already_admin == IF win32 THEN elevated ELSE TRUE
         IN  IF already_admin
             THEN \* subprocess.Popen; process.wait(); any exit code goes on
                  /\ (~win32 => elevated) /\ pywin32 = FALSE
                  /\ \E popen \in {"oserror", "exit0", "exitN"} :
                       CASE popen = "oserror" -> NotSpawnedRaise(TRUE)
                         [] popen = "exitN" ->
                              \* if exit_code != 0: logger.warning
                              DirectInstall("nonzero", FALSE) /\ pc' = "s_distribute"
                         [] popen = "exit0" ->
                              DirectInstall("zero", FALSE) /\ pc' = "s_distribute"
             ELSE IF pywin32
             THEN \* ShellExecuteEx with runas; wait on the process handle
                  \E sei \in {"error", "nohandle", "handle"} :
                       CASE sei = "error" -> NotSpawnedRaise(FALSE)
                         [] sei = "nohandle" -> SpawnedRaise(FALSE, FALSE)
                         [] sei = "handle" -> Spawned(FALSE, TRUE) /\ pc' = "s_distribute"
             ELSE \* ShellExecuteW with runas, then time.sleep(45)
                  \E ret \in ShellExecuteResults, hasExited \in BOOLEAN :
                       /\ (ret <= SE_ERR_LIMIT => ~hasExited)
                       /\ IF ShellExecuteOk(ret)
                          THEN ShellExecuteInstall(ret, hasExited, FALSE) /\ pc' = "s_distribute"
                          ELSE ShellExecuteInstall(ret, hasExited, TRUE) /\ pc' = "idle"
    /\ UNCHANGED <<net, veyonKeys, stagedKeys, gen, cpy, dist, robocopy, runs, idem,
                   programData, un, cs, menu>>

\* keys_distributed = distribute_keys_to_veyon(root_dir)
S_Distribute ==
    /\ pc = "s_distribute"
    /\ \E o \in DistributeOutcomes(stagedKeys, veyonKeys, run.admin) :
         /\ veyonKeys' = o.dst
         /\ dist' = [called |-> TRUE, result |-> o.result, src |-> stagedKeys,
                     pre |-> veyonKeys, post |-> o.dst, copied |-> o.copied,
                     prompts |-> o.prompts, elevations |-> o.elevations,
                     via |-> o.via, answer |-> o.answer]
         /\ robocopy' = (robocopy \/ o.via = "robocopy")
         /\ IF o.result = "raise"
            THEN Raise
            ELSE pc' = "s_distributed" /\ UNCHANGED run
         \* veyon_keys_destination.parent.mkdir(parents=True, exist_ok=True)
         \* has made <PROGRAMDATA>/Veyon, unless it was denied
         /\ programData' \in IF o.via = "fail_fast" THEN {programData}
                              ELSE IF o.dst.exists THEN {TRUE}
                              ELSE {programData, TRUE}
    /\ UNCHANGED <<net, stagedKeys, veyonCli, gen, cpy, runs, idem, uninstallerExe, un, cs, menu>>

\* the log line for either result, then return True
S_Finish ==
    /\ pc = "s_distributed"
    /\ pc' = "idle"
    /\ run' = [run EXCEPT !.outcome = "returned"]
    /\ dist' = Returned(dist)
    /\ UNCHANGED <<net, veyonKeys, stagedKeys, veyonCli, gen, cpy, robocopy, runs, idem, uninstallerExe, programData, un, cs, menu>>

\* the elevated `cmd /c robocopy <keys> <Veyon/keys> /MIR` that ShellExecuteW
\* launched runs on its own: it mirrors the staged tree, or fails
RobocopyRuns ==
    /\ robocopy
    /\ robocopy' = FALSE
    /\ \E ok \in BOOLEAN :
         veyonKeys' = IF ok /\ stagedKeys.exists THEN CopyTree(stagedKeys) ELSE veyonKeys
    /\ programData' = (programData \/ veyonKeys'.exists)
    /\ UNCHANGED <<pc, run, net, stagedKeys, veyonCli, gen, cpy, dist, runs, idem,
                   uninstallerExe, un, cs, menu>>

(***************************************************************************)
(* uninstall_veyon                                                         *)
(***************************************************************************)

\* veyon_data_dir.exists() for <PROGRAMDATA>/Veyon
VeyonDataExists == programData

\* is_admin(): True off Windows, else IsUserAnAdmin()
is_admin(win32, elevated) == IF win32 THEN elevated ELSE TRUE

\* "Step 1: Stop the service": subprocess.run(["sc", "stop", "VeyonService"],
\* timeout=10) inside try / bare except
ScOutcomes == {"stopped", "not_running", "error"}

U_StopService ==
    /\ pc = "u_stop"
    /\ \E sc \in ScOutcomes :
         un' = [un EXCEPT !.called = TRUE, !.sc = sc, !.spawns = @ + 1,
                          !.steps = Append(@, "sc")]
    /\ pc' = "u_find"
    /\ UNCHANGED <<run, net, veyonKeys, stagedKeys, veyonCli, gen, cpy, dist, robocopy,
                   runs, idem, uninstallerExe, programData, cs, menu>>

\* "Step 2": find_veyon_uninstaller(); without an uninstaller the run goes to
\* the data prompt if the data folder exists, and returns True otherwise
U_Find ==
    /\ pc = "u_find"
    /\ IF uninstallerExe
       THEN /\ un' = [un EXCEPT !.found = TRUE]
            /\ pc' = "u_run"
            /\ UNCHANGED run
       ELSE IF VeyonDataExists
       THEN /\ un' = un
            /\ pc' = "u_prompt"
            /\ UNCHANGED run
       ELSE \* "uninstall: Nothing to remove"; return True
            /\ un' = [un EXCEPT !.result = TRUE]
            /\ pc' = "u_done"
            /\ UNCHANGED run
    /\ UNCHANGED <<net, veyonKeys, stagedKeys, veyonCli, gen, cpy, dist, robocopy,
                   runs, idem, uninstallerExe, programData, cs, menu>>

\* a caller that gives up when the uninstaller failed
UninstallerFailureAborts(u, ok) ==
    /\ un' = [u EXCEPT !.uninstall_success = IF ok THEN "true" ELSE "false",
                       !.result = ok]
    /\ pc' = IF ok THEN "u_prompt" ELSE "u_done"

\* run_uninstaller_elevated returns uninstall_success; uninstall_veyon logs a
\* warning when it is False, sleeps 3 seconds and goes on to step 3
UninstallerReturns(u, ok) ==
    /\ un' = [u EXCEPT !.uninstall_success = IF ok THEN "true" ELSE "false"]
    /\ pc' = "u_prompt"

\* what the spawned uninstall.exe /S does: exit with code 0, exit with another
\* code, or never exit
UninstallerProcs == {"exit0", "exitN", "never"}

\* run_uninstaller_elevated(uninstaller_path), up to the wait for the process
U_Run ==
    /\ pc = "u_run"
    /\ \E win32 \in BOOLEAN, elevated \in BOOLEAN, pywin32 \in BOOLEAN :
         LET already_admin == is_admin(win32, elevated)
             u == [un EXCEPT !.steps = Append(@, "uninstaller")]
         IN  /\ run' = [run EXCEPT !.admin = already_admin]
             /\ IF already_admin
                THEN \* subprocess.Popen(..., creationflags=DETACHED_PROCESS), then
                     \* process.communicate(timeout=120)
                     /\ (~win32 => elevated) /\ pywin32 = FALSE
                     /\ \E popen \in {"error", "started"} :
                          IF popen = "error" \/ ~win32
                          THEN popen = "error" /\ UninstallerReturns(u, FALSE)
                          ELSE \E proc \in UninstallerProcs :
                                 /\ un' = [u EXCEPT !.spawns = @ + 1, !.proc = proc,
                                                    !.wait = "timeout"]
                                 /\ pc' = "u_wait"
                ELSE IF ~pywin32
                THEN \* except ImportError: return False
                     UninstallerReturns(u, FALSE)
                ELSE \* ShellExecuteEx with runas, then
                     \* WaitForSingleObject(hProcess, win32event.INFINITE)
                     \E sei \in {"error", "nohandle", "handle"} :
                          IF sei = "handle"
                          THEN \E proc \in UninstallerProcs :
                                 /\ un' = [u EXCEPT !.spawns = @ + 1, !.proc = proc,
                                                    !.wait = "infinite"]
                                 /\ pc' = "u_wait"
                          ELSE UninstallerReturns(u, FALSE)
    /\ UNCHANGED <<net, veyonKeys, stagedKeys, veyonCli, gen, cpy, dist, robocopy,
                   runs, idem, uninstallerExe, programData, cs, menu>>

\* the wait ends: the process has exited, or communicate() raised
\* TimeoutExpired after 120 seconds and the process was killed; a wait with
\* win32event.INFINITE ends only when the process exits
WaitEnds(u) == u.proc # "never" \/ u.wait = "timeout"

\* the end of run_uninstaller_elevated: return exit_code == 0, or False on
\* timeout; an uninstaller that exited with 0 has removed the program and
\* may have removed the data folder
U_Wait ==
    /\ pc = "u_wait"
    /\ WaitEnds(un)
    /\ IF un.proc = "exit0"
       THEN /\ uninstallerExe' = FALSE
            /\ veyonCli' = FALSE
            /\ \E wipes \in BOOLEAN :
                 /\ veyonKeys' = IF wipes THEN NoDir ELSE veyonKeys
                 /\ programData' = IF wipes THEN FALSE ELSE programData
       ELSE UNCHANGED <<uninstallerExe, veyonCli, veyonKeys, programData>>
    /\ UninstallerReturns(un, un.proc = "exit0")
    /\ UNCHANGED <<run, net, stagedKeys, gen, cpy, dist, robocopy, runs, idem, cs, menu>>

\* response = input(...).strip().lower(); response in ["y", "yes"]
PurgeConsentByDefault(response) ==
    Lower(Strip(response)) \in { <<"y">>, <<"y", "e", "s">>, <<>> }

PurgeConsent(response) ==
    Lower(Strip(response)) \in { <<"y">>, <<"y", "e", "s">> }

\* what a removal of <PROGRAMDATA>/Veyon can leave: nothing, or the folder
\* with the files the walk had not reached
PurgeRemovals(d) ==
    {[keys |-> NoDir, data |-> FALSE]}
    \cup {[keys |-> IF d.exists THEN RemovePart(d, S) ELSE d, data |-> TRUE] :
            S \in PartialSets(FilesOf(d))}

\* remove_with_powershell_elevated: pywin32 missing, ShellExecuteEx fails or
\* gives no handle (False, nothing spawned); else the elevated PowerShell
\* runs and the result is exit_code == 0
PowershellOutcomes(d, data) ==
    {[result |-> FALSE, keys |-> d, data |-> data, spawns |-> 0, by |-> "powershell"]}
    \cup {[result |-> ok, keys |-> r.keys, data |-> r.data, spawns |-> 1,
            by |-> "powershell"] :
            r \in PurgeRemovals(d), ok \in BOOLEAN}

\* remove_programdata_elevated once the folder was found to exist: rmtree with
\* onerror=remove_readonly when already elevated (the handler logs what it
\* cannot delete, and rmtree returns), PowerShell when rmtree raises or when
\* not elevated
PurgeOutcomes(d, data, already_admin) ==
    IF already_admin
    THEN {[result |-> TRUE, keys |-> r.keys, data |-> r.data, spawns |-> 0,
           by |-> "rmtree"] :
            r \in PurgeRemovals(d)}
         \cup PowershellOutcomes(d, data)
    ELSE PowershellOutcomes(d, data)

\* "Step 3: Ask user about data removal", and return True
U_Prompt ==
    /\ pc = "u_prompt"
    /\ IF VeyonDataExists
       THEN \E response \in Choices, win32 \in BOOLEAN, elevated \in BOOLEAN :
              LET already_admin == is_admin(win32, elevated)
                  u == [un EXCEPT !.prompts = @ + 1, !.response = response,
                                  !.steps = @ \o <<"cleanup", "prompt">>,
                                  !.pre = veyonKeys, !.preData = programData,
                                  !.result = TRUE]
              IN  /\ (un.found => already_admin = run.admin)
                  /\ (~win32 => elevated)
                  /\ IF PurgeConsent(response)
                     THEN \E o \in PurgeOutcomes(veyonKeys, programData, already_admin) :
                            /\ veyonKeys' = o.keys
                            /\ programData' = o.data
                            /\ un' = [u EXCEPT !.purge = IF o.result THEN "true" ELSE "false",
                                               !.spawns = @ + o.spawns,
                                               !.steps = Append(@, "purge"),
                                               !.post = o.keys, !.postData = o.data,
                                               !.purgeBy = o.by]
                            /\ run' = [run EXCEPT !.admin = already_admin]
                     ELSE /\ UNCHANGED <<veyonKeys, programData, run>>
                          /\ un' = [u EXCEPT !.post = veyonKeys, !.postData = programData]
       ELSE \* "ProgramData directory already removed by uninstaller"
            /\ un' = [un EXCEPT !.result = TRUE, !.steps = Append(@, "cleanup")]
            /\ UNCHANGED <<veyonKeys, programData, run>>
    /\ pc' = "u_done"
    /\ UNCHANGED <<net, stagedKeys, veyonCli, gen, cpy, dist, robocopy, runs, idem,
                   uninstallerExe, cs, menu>>

\* the record of an uninstall_veyon call once it has returned
UnReturned(u) == [UnIdle EXCEPT !.called = u.called, !.result = u.result]

\* "uninstall: Completed successfully"; return True
U_Finish ==
    /\ pc = "u_done"
    /\ pc' = "idle"
    /\ run' = [run EXCEPT !.outcome = "returned"]
    /\ un' = UnReturned(un)
    /\ UNCHANGED <<net, veyonKeys, stagedKeys, veyonCli, gen, cpy, dist, robocopy, runs,
                   idem, uninstallerExe, programData, cs, menu>>

(***************************************************************************)
(* Specification                                                           *)
(***************************************************************************)

Next ==
    \/ \E s \in {"teacher", "student", "uninstall"} : RunScript(s)
    \/ T_Fetch
    \/ T_Select
    \/ T_Checksum
    \/ T_Download
    \/ T_Verify
    \/ T_Launch
    \/ T_Generate
    \/ G_Attempt
    \/ G_Exhausted
    \/ T_KeysGenerated
    \/ T_Copy
    \/ T_Finish
    \/ S_Fetch
    \/ S_Select
    \/ S_Download
    \/ S_Launch
    \/ S_Distribute
    \/ S_Finish
    \/ RobocopyRuns
    \/ U_StopService
    \/ U_Find
    \/ U_Run
    \/ U_Wait
    \/ U_Prompt
    \/ U_Finish

Spec == Init /\ [][Next]_vars

(***************************************************************************)
(* find_checksum_in_text on its own: the texts it is given and its result  *)
(***************************************************************************)

\* the number of lines of a checksum text
MaxLines == 3

\* "\n".join(lines)
RECURSIVE JoinLines(_)
JoinLines(lines) ==
    IF lines = <<>> THEN <<>>
    ELSE IF Len(lines) = 1 THEN lines[1]
    ELSE lines[1] \o <<"\n">> \o JoinLines(Tail(lines))

\* the lines a checksum text is made of: a digest with another file's name,
\* a digest in capitals with the file's name, the file's name after 65 word
\* characters (no digest), two digests and the file's name, a digest after
\* "sha:", and a line of 65 hex digits
ChecksumLines ==
    { HashB \o <<" ", " ">> \o NameWin32,
      HashAUpper \o <<" ", " ">> \o NameWin64,
      <<"x">> \o HashA \o <<" ">> \o NameWin64,
      HashB \o <<" ">> \o HashA \o <<" ", "*">> \o NameWin64,
      <<"s", "h", "a", ":">> \o HashA,
      HashA \o <<"0">> }

ChecksumTexts ==
    UNION {[1..n -> ChecksumLines] : n \in 0..MaxLines}

ChecksumFilenames == {NameWin64, NameWin32}

InitChecksum ==
    /\ pc = "checksum"
    /\ run = RunIdle
    /\ net = NetIdle
    /\ veyonKeys = NoDir
    /\ stagedKeys = NoDir
    /\ veyonCli = FALSE
    /\ gen = GenIdle
    /\ cpy = CpyIdle
    /\ dist = DistIdle
    /\ robocopy = FALSE
    /\ runs = 0
    /\ idem = 0
    /\ uninstallerExe = FALSE
    /\ programData = FALSE
    /\ un = UnIdle
    /\ cs \in {[CsIdle EXCEPT !.lines = ls, !.filename = f] :
                 ls \in ChecksumTexts, f \in ChecksumFilenames}
    /\ menu = MenuIdle

\* checksum = find_checksum_in_text(checksum_text, filename)
FindChecksum ==
    /\ pc = "checksum"
    /\ ~cs.done
    /\ cs' = [cs EXCEPT !.checksum = find_checksum_in_text(JoinLines(cs.lines), cs.filename),
                        !.done = TRUE]
    /\ UNCHANGED <<pc, run, net, veyonKeys, stagedKeys, veyonCli, gen, cpy, dist,
                   robocopy, runs, idem, uninstallerExe, programData, un, menu>>

NextChecksum == FindChecksum

SpecChecksum == InitChecksum /\ [][NextChecksum]_vars

(***************************************************************************)
(* menu.py: the loop of main                                               *)
(***************************************************************************)

\* the loop iterations explored
MaxIterations == 3

\* the entries a lib directory can hold, by a short key: their file names
FileName ==
    [info      |-> <<"i", "n", "f", "o", ".", "p", "y">>,
     student   |-> <<"i", "n", "s", "t", "a", "l", "l", "_", "s", "t", "u", "d", "e", "n", "t", ".", "p", "y">>,
     teacher   |-> <<"i", "n", "s", "t", "a", "l", "l", "_", "t", "e", "a", "c", "h", "e", "r", ".", "p", "y">>,
     uninstall |-> <<"u", "n", "i", "n", "s", "t", "a", "l", "l", ".", "p", "y">>,
     logger    |-> <<"l", "o", "g", "g", "e", "r", ".", "p", "y">>,
     init      |-> <<"_", "_", "i", "n", "i", "t", "_", "_", ".", "p", "y">>,
     pycache   |-> <<"_", "_", "p", "y", "c", "a", "c", "h", "e", "_", "_">>]

\* the lib directories explored: the repository's, the same after a run
\* left __pycache__ and with an __init__.py, one with two scripts, one
\* without scripts
LibDirs ==
    { {"info", "student", "teacher", "uninstall", "logger"},
      {"info", "student", "teacher", "uninstall", "logger", "init", "pycache"},
      {"uninstall", "logger", "info"},
      {"logger"} }

\* the characters of the file names in the order of their code points
CharOrder ==
    <<".", "_", "a", "b", "c", "d", "e", "f", "g", "h", "i", "j", "k", "l", "m",
      "n", "o", "p", "q", "r", "s", "t", "u", "v", "w", "x", "y", "z">>

\* the comparison of two names that sorted() uses: the first differing
\* character decides, a proper prefix comes first
LexLess(a, b) ==
    LET ord(c) == CHOOSE i \in 1..Len(CharOrder) : CharOrder[i] = c
    IN  \E i \in 1..Len(b) :
          /\ \A j \in 1..(i - 1) : j <= Len(a) /\ a[j] = b[j]
          /\ (i > Len(a) \/ (i <= Len(a) /\ ord(a[i]) < ord(b[i])))

RECURSIVE SortedSeq(_)
\* sorted(...) of a set of entries, by file name
SortedSeq(S) ==
    IF S = {} THEN <<>>
    ELSE LET first == CHOOSE f \in S :
                        \A g \in S \ {f} : LexLess(FileName[f], FileName[g])
         IN  <<first>> \o SortedSeq(S \ {first})

\* LIB_DIR.glob("*.py")
GlobPy(lib) ==
    {f \in lib : LET n == FileName[f]
                 IN  Len(n) >= 3 /\ SubSeq(n, Len(n) - 2, Len(n)) = <<".", "p", "y">>}

\* get_lib_scripts(): the sorted *.py files without logger.py and
\* __init__.py; an error while reading the directory is logged and gives
\* the empty list
get_lib_scripts(lib, readable) ==
    IF ~readable THEN <<>>
    ELSE SortedSeq({f \in GlobPy(lib) :
                      FileName[f] \notin {FileName["logger"], FileName["init"]}})

\* what the operator can type at "Choose an option (number/r/a/e/0): "
MenuChoices ==
    { <<"0">>, <<"1">>, <<"2">>, <<"3">>, <<"4">>, <<"5">>, <<"1", "0">>,
      <<" ", "2", " ">>, <<"+", "3">>, <<"-", "1">>, <<"0", "0">>, <<"0", "1">>,
      <<"r">>, <<"R">>, <<"a">>, <<"A">>, <<"e">>, <<"E">>,
      <<>>, <<"x">>, <<"1", "x">>, <<"1", ".", "5">>, <<" ", "r">> }

DecimalDigits == <<"0", "1", "2", "3", "4", "5", "6", "7", "8", "9">>

RECURSIVE DigitsValue(_)
\* the number a string of decimal digits writes
DigitsValue(ds) ==
    IF ds = <<>> THEN 0
    ELSE LET last == ds[Len(ds)]
             d == CHOOSE i \in 1..Len(DecimalDigits) : DecimalDigits[i] = last
         IN  10 * DigitsValue(SubSeq(ds, 1, Len(ds) - 1)) + (d - 1)

\* int(choice) for a string of blanks, signs, digits and letters: blanks
\* around are dropped, one sign may lead, at least one digit must follow and
\* nothing else; ok is FALSE where int raises ValueError
ParseInt(text) ==
    LET t == Strip(text)
        signed == Len(t) >= 1 /\ t[1] \in {"+", "-"}
        ds == IF signed THEN SubSeq(t, 2, Len(t)) ELSE t
        isDigits == Len(ds) >= 1 /\
                    \A i \in 1..Len(ds) : \E k \in 1..Len(DecimalDigits) : ds[i] = DecimalDigits[k]
    IN  IF ~isDigits THEN [ok |-> FALSE, value |-> 0]
        ELSE [ok |-> TRUE,
              value |-> IF signed /\ t[1] = "-" THEN 0 - DigitsValue(ds) ELSE DigitsValue(ds)]

\* the names a loaded script module defines, of those run_script probes
ModuleAttrs ==
    [info      |-> {"show_computer_info"},
     student   |-> {"install_student"},
     teacher   |-> {"install_teacher"},
     uninstall |-> {"uninstall_veyon"},
     logger    |-> {},
     init      |-> {},
     pycache   |-> {}]

\* the hasattr chain of run_script
EntryPoint(attrs) ==
    IF "install_teacher" \in attrs THEN "install_teacher"
    ELSE IF "install_student" \in attrs THEN "install_student"
    ELSE IF "uninstall_veyon" \in attrs THEN "uninstall_veyon"
    ELSE IF "show_computer_info" \in attrs THEN "show_computer_info"
    ELSE IF "main" \in attrs THEN "main"
    ELSE "none"

\* how loading and running a script can end: it returns, it raises an
\* Exception, Ctrl-C raises KeyboardInterrupt in it, or it raises SystemExit;
\* the scripts of lib call sys.exit nowhere, a script the operator names by
\* its path may
ScriptOutcomes(script) ==
    IF script = "external"
    THEN {"returned", "exception", "interrupt", "exit"}
    ELSE {"returned", "exception", "interrupt"}

\* a run_script without its except clause: the exception reaches the
\* `except Exception` of main
OnScriptExceptionPropagates(m) ==
    [m EXCEPT !.outcome = "raised", !.state = "ended", !.end = "script_error"]

\* `except Exception as e` of run_script: log, print, return
OnScriptException(m) == [m EXCEPT !.outcome = "caught"]

\* run_script(script_path): the records of the loop after the call; attrs
\* are the names the loaded module defines; KeyboardInterrupt and SystemExit
\* are no Exception and leave run_script and the loop
run_script(m, script, attrs) ==
    LET r == [m EXCEPT !.ran = script, !.entry = EntryPoint(attrs)]
    IN  { CASE o = "returned" -> [r EXCEPT !.outcome = "returned"]
            [] o = "exception" -> OnScriptException(r)
            [] o = "interrupt" -> [r EXCEPT !.outcome = "interrupt", !.state = "ended",
                                            !.end = "interrupt"]
            [] o = "exit" -> [r EXCEPT !.outcome = "exit", !.state = "ended",
                                       !.end = "script_exit"]
          : o \in ScriptOutcomes(script) }

\* input(...): a line, Ctrl-C (KeyboardInterrupt, `except KeyboardInterrupt`
\* of main), or end of input (EOFError, `except Exception` of main)
InputOutcomes == {"line", "interrupt", "eof"}

\* the loop after an input() that gave no line
InputFailed(m, i) ==
    [m EXCEPT !.state = "ended",
              !.end = IF i = "interrupt" THEN "interrupt" ELSE "input_error"]

\* input("\nPress Enter to continue..."), unless the loop has ended already
PressEnter(m) ==
    IF m.state = "ended" THEN {m}
    ELSE {m} \cup {InputFailed(m, i) : i \in {"interrupt", "eof"}}

\* one pass of `while True`: display_menu() and the choice typed
Iteration(choice) ==
    [menu EXCEPT !.iter = @ + 1, !.choice = choice, !.scripts = <<>>,
                 !.ran = "none", !.entry = "none", !.outcome = "none"]

\* the variables the menu loop does not touch
MenuOnly ==
    UNCHANGED <<pc, run, net, veyonKeys, stagedKeys, veyonCli, gen, cpy, dist,
                robocopy, runs, idem, uninstallerExe, programData, un, cs>>

\* main() up to the loop: admin_status = is_admin(), which is true off
\* Windows; the lib directory is one of LibDirs
InitMenu ==
    /\ pc = "menu"
    /\ run = RunIdle
    /\ net = NetIdle
    /\ veyonKeys = NoDir
    /\ stagedKeys = NoDir
    /\ veyonCli = FALSE
    /\ gen = GenIdle
    /\ cpy = CpyIdle
    /\ dist = DistIdle
    /\ robocopy = FALSE
    /\ runs = 0
    /\ idem = 0
    /\ uninstallerExe = FALSE
    /\ programData = FALSE
    /\ un = UnIdle
    /\ cs = CsIdle
    /\ menu \in {[MenuIdle EXCEPT !.state = "loop", !.admin_status = a, !.lib = d] :
                   a \in BOOLEAN, d \in LibDirs}

\* the prompt is open
AtPrompt ==
    /\ pc = "menu"
    /\ menu.state = "loop"
    /\ menu.iter < MaxIterations

\* choice = input(...) gives no line
M_InputFails ==
    /\ AtPrompt
    /\ \E i \in {"interrupt", "eof"} :
         menu' = InputFailed(Iteration(None), i)
    /\ MenuOnly

\* if choice == "0": break
M_Exit ==
    /\ AtPrompt
    /\ \E choice \in MenuChoices :
         /\ choice = <<"0">>
         /\ menu' = [Iteration(choice) EXCEPT !.state = "ended", !.end = "exit_choice"]
    /\ MenuOnly

\* elif choice.lower() == "r": continue
M_Reload ==
    /\ AtPrompt
    /\ \E choice \in MenuChoices :
         /\ choice # <<"0">>
         /\ Lower(choice) = <<"r">>
         /\ menu' = Iteration(choice)
    /\ MenuOnly

\* elif choice.lower() == "a": the message when already elevated, else
\* relaunch_as_admin(), which ends the process with sys.exit(0) when
\* ShellExecuteW returned more than 32 and returns False otherwise
M_Admin ==
    /\ AtPrompt
    /\ \E choice \in MenuChoices :
         /\ choice # <<"0">>
         /\ Lower(choice) = <<"a">>
         /\ IF menu.admin_status
            THEN menu' \in PressEnter(Iteration(choice))
            ELSE \E ret \in ShellExecuteResults :
                   IF ShellExecuteOk(ret)
                   THEN menu' = [Iteration(choice) EXCEPT !.state = "ended",
                                                          !.end = "relaunch"]
                   ELSE menu' \in PressEnter(Iteration(choice))
    /\ MenuOnly

\* elif choice.lower() == "e": the path typed is empty, names no file, or
\* names a script, which run_script runs
M_External ==
    /\ AtPrompt
    /\ \E choice \in MenuChoices, path \in InputOutcomes \cup {"empty", "missing"} :
         /\ choice # <<"0">>
         /\ Lower(choice) = <<"e">>
         /\ IF path \in {"interrupt", "eof"}
            THEN menu' = InputFailed(Iteration(choice), path)
            ELSE IF path \in {"empty", "missing"}
            THEN menu' \in PressEnter(Iteration(choice))
            ELSE \E attrs \in {{"main"}, {}} :
                   menu' \in UNION {PressEnter(m) :
                                      m \in run_script(Iteration(choice), "external", attrs)}
    /\ MenuOnly

\* else: index = int(choice) - 1; scripts = get_lib_scripts();
\* if 0 <= index < len(scripts): run_script(scripts[index]);
\* "Invalid selection." otherwise, "Invalid input." on ValueError
M_Numbered ==
    /\ AtPrompt
    /\ \E choice \in MenuChoices, readable \in BOOLEAN :
         /\ choice # <<"0">>
         /\ Lower(choice) \notin {<<"r">>, <<"a">>, <<"e">>}
         /\ LET n == ParseInt(choice)
                index == n.value - 1
                scripts == get_lib_scripts(menu.lib, readable)
                it == [Iteration(choice) EXCEPT !.scripts = scripts]
            IN  IF ~n.ok
                THEN \* int raised ValueError before get_lib_scripts was called
                     /\ readable
                     /\ menu' \in PressEnter(Iteration(choice))
                ELSE IF 0 <= index /\ index < Len(scripts)
                THEN menu' \in UNION {PressEnter(m) :
                                        m \in run_script(it, scripts[index + 1],
                                                         ModuleAttrs[scripts[index + 1]])}
                ELSE menu' \in PressEnter(it)
    /\ MenuOnly

NextMenu ==
    \/ M_InputFails
    \/ M_Exit
    \/ M_Reload
    \/ M_Admin
    \/ M_External
    \/ M_Numbered

SpecMenu == InitMenu /\ [][NextMenu]_vars

(***************************************************************************)
(* Properties                                                              *)
(***************************************************************************)

\* the record of the distribute_keys_to_veyon call still holds its locals
DistLive == dist.called /\ dist.via # "none"

\* C1: in install_teacher, when a reference checksum was obtained and it
\* differs from the digest of the downloaded file, the run raises at the
\* verification: the installer is not spawned, and neither
\* generate_veyon_keys nor copy_veyon_keys is called.
C1_TeacherMismatchAborts ==
    (run.script = "teacher" /\ run.mismatch) =>
        /\ ~run.spawned
        /\ ~gen.called
        /\ ~cpy.called
        /\ pc \in {"t_verify", "idle"}
        /\ (pc = "idle" => run.outcome = "raised")

C1_Witness ==
    /\ run.script = "teacher"
    /\ run.mismatch
    /\ run.downloaded
    /\ pc = "idle"
    /\ run.outcome = "raised"

\* C2: in install_student, when the release publishes a reference checksum
\* for the selected installer and it differs from the digest of the
\* downloaded file, the installer is never spawned.
C2_StudentMismatchAborts ==
    (run.script = "student" /\ run.mismatch) => ~run.spawned

\* a fetched release none of whose assets holds "win64" in its name or URL
NoPlatformAsset ==
    /\ net.release.tag_name # None
    /\ \A i \in 1..Len(net.release.assets) :
         /\ ~Contains(PLATFORM_TOKEN, Lower(net.release.assets[i].name))
         /\ ~Contains(PLATFORM_TOKEN, Lower(net.release.assets[i].browser_download_url))

\* C3: for a release with no asset matching "win64" (the empty list
\* included), install_teacher and install_student both raise at the asset
\* selection: no installer download, no installer spawn, no key step.
C3_NoPlatformAssetFails ==
    NoPlatformAsset =>
        /\ ~run.downloaded
        /\ ~run.spawned
        /\ ~gen.called /\ ~cpy.called /\ ~dist.called
        /\ pc \in {"t_select", "s_select", "idle"}
        /\ (pc = "idle" => run.outcome = "raised")

C3_Witness ==
    /\ NoPlatformAsset
    /\ net.release.assets # <<>>
    /\ run.script = "student"
    /\ pc = "idle"
    /\ run.outcome = "raised"

\* C4: a generate_veyon_keys call that finds both supervisor key files
\* returns success without any CLI call (no create, no delete) and leaves the
\* key directory as it was; this holds for every call, however many came
\* before.
C4_GenerateIdempotent ==
    /\ (gen.called /\ gen.pre # NoDir /\ SupervisorKeysExist(gen.pre)) =>
          /\ pc = "t_generated"
          /\ gen.returned /\ gen.result
          /\ gen.creates = 0 /\ gen.deletes = 0
          /\ gen.post = gen.pre
    /\ (pc = "g_attempt" => ~SupervisorKeysExist(gen.pre))

C4_Witness ==
    /\ pc = "t_generated"
    /\ idem >= 2
    /\ SupervisorKeysExist(gen.pre)
    /\ gen.result

\* both key files are on disk: the supervisor pair, or at least one file
\* under a "private" path and one under a "public" path
KeyPairOnDisk(d) == SupervisorKeysExist(d) \/ AnyPrivateAndPublic(d)

\* C5: whenever generate_veyon_keys returns success, both key files are on
\* disk at that moment; a file count alone is not enough.
C5_SuccessMeansKeysOnDisk ==
    (pc = "t_generated" /\ gen.result) => KeyPairOnDisk(gen.post)

\* C6: generate_veyon_keys calls `authkeys create` at most max_attempts
\* times, and when no key pair is confirmed on disk it returns failure.
C6_BoundedAndFailsWithoutKeys ==
    /\ gen.creates <= max_attempts
    /\ gen.attempt <= max_attempts
    /\ (pc = "t_generated" /\ ~KeyPairOnDisk(gen.post)) => ~gen.result

\* C7: when generate_veyon_keys returns failure, install_teacher raises:
\* copy_veyon_keys is not called and the run does not return success.
C7_KeyFailureIsFatal ==
    (run.script = "teacher" /\ gen.returned /\ ~gen.result) =>
        /\ ~cpy.called
        /\ run.outcome # "returned"
        /\ pc \in {"t_generated", "idle"}
        /\ (pc = "idle" => run.outcome = "raised")

C7_Witness ==
    /\ run.script = "teacher"
    /\ gen.returned /\ ~gen.result
    /\ pc = "idle"
    /\ run.outcome = "raised"
    /\ stagedKeys.exists

\* C8: copy_veyon_keys copies only into a destination that is not there (an
\* old staged directory is removed first), and returns success only if both
\* supervisor key files are at the destination after the copy, with nothing
\* of the old staged directory left.
C8_CopyVerified ==
    pc = "t_copied" =>
        /\ ~cpy.overOld
        /\ cpy.result =>
             /\ cpy.copied
             /\ DirHas(stagedKeys, "priv") /\ DirHas(stagedKeys, "pub")
             /\ \A f \in FileIds : stagedKeys.files[f] \in {NoFile, cpy.src.files[f]}

C8_Witness ==
    /\ pc = "t_copied"
    /\ cpy.result
    /\ cpy.pre.exists
    /\ cpy.pre.files["pub"] # cpy.src.files["pub"]
    /\ cpy.elevated >= 1

\* C9: when the staged directory is absent or lacks public/supervisor/key,
\* distribute_keys_to_veyon returns failure and leaves the vendor key
\* directory as it was: no copy attempt, no consent prompt, no elevation.
C9_DistributeFailsFast ==
    (DistLive /\ ~(dist.src.exists /\ DirHas(dist.src, "pub"))) =>
        /\ dist.result = "false"
        /\ dist.post = dist.pre
        /\ ~dist.copied
        /\ dist.prompts = 0
        /\ dist.elevations = 0

C9_Witness ==
    /\ pc = "s_distributed"
    /\ dist.src.exists
    /\ ~DirHas(dist.src, "pub")
    /\ dist.pre.exists
    /\ dist.result = "false"

\* C10: for a staged directory with both supervisor keys, when
\* distribute_keys_to_veyon has reported success and no mirroring command is
\* still to run, the public key is in the vendor key directory with the
\* content of the staged one.
C10_RoundTrip ==
    (pc = "s_distributed" /\ dist.result = "true" /\ ~robocopy
       /\ SupervisorKeysExist(dist.src)) =>
        /\ DirHas(veyonKeys, "pub")
        /\ veyonKeys.files["pub"] = dist.src.files["pub"]

\* the ways distribute_keys_to_veyon reports failure: staged keys missing,
\* access denied while elevated, the operator declined, the elevation failed
DistributorFailures == {"fail_fast", "denied_admin", "declined", "uac_failed"}

\* C11: when distribute_keys_to_veyon fails (staged keys missing, access
\* denied, elevation declined or refused), install_student does not raise:
\* the installer was launched, the run goes on and returns success.
C11_DistributorFailureNotFatal ==
    /\ (DistLive /\ dist.via \in DistributorFailures) =>
          /\ pc = "s_distributed"
          /\ dist.result = "false"
          /\ run.spawned
          /\ run.outcome = "running"
    /\ (run.script = "student" /\ pc = "idle" /\ dist.called /\ dist.result = "false") =>
          run.outcome = "returned"

C11_Witness ==
    /\ run.script = "student"
    /\ pc = "idle"
    /\ run.outcome = "returned"
    /\ run.spawned
    /\ dist.called
    /\ dist.result = "false"
    /\ ~DirHas(veyonKeys, "pub")

\* C12: in both install workflows, when the process is not elevated and the
\* elevation of the installer is refused or fails (ShellExecuteEx error, no
\* process handle, ShellExecuteW value of 32 or less), the run raises there:
\* no key step (generate, copy, distribute) is ever called.
C12_ElevationFailureAborts ==
    run.elevation = "failed" =>
        /\ ~run.admin
        /\ pc = "idle"
        /\ run.outcome = "raised"
        /\ ~gen.called /\ ~cpy.called /\ ~dist.called

C12_Witness ==
    /\ run.elevation = "failed"
    /\ run.script = "teacher"
    /\ ~run.spawned
    /\ run.downloaded
    /\ pc = "idle"

\* C13: in both install workflows, when the process is already elevated and
\* the installer it spawned exits with a non-zero code, the run does not
\* raise at the launch: it goes on to its key step.
C13_NonZeroExitIsWarning ==
    (run.admin /\ run.exit_code = "nonzero") =>
        pc # "idle" \/ gen.called \/ dist.called

\* C14: an uninstall_veyon run that finds no uninstaller and no data folder
\* returns success without having spawned any process (the service-control
\* command included) and without a prompt.
C14_NothingInstalledNoSpawn ==
    (run.script = "uninstall" /\ pc = "u_done" /\ un.steps = <<"sc">>
       /\ ~uninstallerExe /\ ~VeyonDataExists) =>
        /\ un.result
        /\ un.spawns = 0
        /\ un.prompts = 0

\* C15: in every launch path, an uninstaller that never exits is waited for
\* with a timeout only, so that the wait ends.
C15_UninstallerWaitBounded ==
    (pc = "u_wait" /\ un.proc = "never") => un.wait = "timeout"

\* the answers of Choices that mean 'y' or 'yes'
AffirmativeAnswers == { <<"y">>, <<"Y">>, <<" ", "Y", "e", "s", " ">> }

\* C16: uninstall_veyon removes the data folder only if the operator answered
\* the purge prompt with 'y' or 'yes'; after any other answer, the empty one
\* included, no removal is attempted and the folder is as it was.
C16_PurgeOnlyOnConsent ==
    pc = "u_done" =>
        /\ (un.purge # "none") => (un.prompts = 1 /\ un.response \in AffirmativeAnswers)
        /\ (un.prompts = 1 /\ un.response \notin AffirmativeAnswers) =>
              /\ un.purge = "none"
              /\ un.post = un.pre
              /\ un.postData = un.preData
              /\ "purge" \notin {un.steps[i] : i \in 1..Len(un.steps)}

C16_Witness ==
    /\ pc = "u_done"
    /\ un.prompts = 1
    /\ un.response = <<>>
    /\ un.pre.exists
    /\ DirHas(veyonKeys, "priv")

\* the steps of uninstall_veyon in the order of the source
StepOrder == <<"sc", "uninstaller", "cleanup", "prompt", "purge">>

\* the steps of a trace are in the order of StepOrder, none twice
InStepOrder(steps) ==
    \E pos \in [1..Len(steps) -> 1..Len(StepOrder)] :
        /\ \A i \in 1..Len(steps) : steps[i] = StepOrder[pos[i]]
        /\ \A i \in 1..(Len(steps) - 1) : pos[i] < pos[i + 1]

\* C17: the uninstall steps are best-effort: after a failed service stop, a
\* failed or timed-out uninstaller or a failed purge the later steps are
\* still taken, in order (service stop, uninstaller, purge prompt), and
\* uninstall_veyon returns success.
C17_UninstallBestEffort ==
    /\ (run.script = "uninstall" /\ pc = "u_done") =>
          LET taken == {un.steps[i] : i \in 1..Len(un.steps)}
          IN  /\ un.result
              /\ InStepOrder(un.steps)
              /\ "sc" \in taken
              /\ un.found => ("uninstaller" \in taken /\ "cleanup" \in taken)
              /\ un.uninstall_success = "false" => "cleanup" \in taken
              /\ ("cleanup" \in taken /\ un.preData) => "prompt" \in taken
    /\ (run.script = "uninstall" /\ pc = "idle") =>
          (run.outcome = "returned" /\ un.result)

C17_Witness ==
    /\ pc = "u_done"
    /\ un.sc = "error"
    /\ un.proc = "never"
    /\ un.uninstall_success = "false"
    /\ un.purge = "false"
    /\ un.result

\* C18: for every workflow run, started directly or from the menu, an
\* exception raised in a step ends the process with a non-zero status.
C18_ExceptionsEndTheProcess ==
    (pc = "idle" /\ run.outcome = "raised") => ProcessStatus(run) = "exit_nonzero"

\* C19: in install_teacher every failed network request (release metadata,
\* checksum file, installer) is fatal: the run raises there and the
\* installer is not spawned.
C19_NetworkFailureIsFatal ==
    (run.script = "teacher" /\ run.netfail # "none") =>
        /\ pc = "idle"
        /\ run.outcome = "raised"
        /\ ~run.spawned

\* the lines of the text that hold a 64-hex-digit match
LinesWithHex == {k \in 1..Len(cs.lines) : HexSearch(cs.lines[k]) # None}

\* those of them that also hold the filename
LinesWithHexAndName == {k \in LinesWithHex : Contains(cs.filename, cs.lines[k])}

LowerHexChars == {"0", "1", "2", "3", "4", "5", "6", "7", "8", "9",
                  "a", "b", "c", "d", "e", "f"}

\* r is the lowercase form of a 64-hex-digit match of the line
IsLowerHexOf(r, line) ==
    /\ Len(r) = HexDigits
    /\ \A j \in 1..Len(r) : r[j] \in LowerHexChars
    /\ \E i \in 1..Len(line) :
         /\ HexMatchAt(line, i)
         /\ \A j \in 1..HexDigits : LowerChar(line[i + j - 1]) = r[j]

\* C20: find_checksum_in_text returns the lowercase 64-hex-digit string of
\* the first line that holds both a match and the filename; without such a
\* line, that of the first line that holds a match; without any match, None.
C20_FindChecksum ==
    cs.done =>
        IF LinesWithHexAndName # {}
        THEN LET k == CHOOSE m \in LinesWithHexAndName :
                          \A n \in LinesWithHexAndName : m <= n
             IN  IsLowerHexOf(cs.checksum, cs.lines[k])
        ELSE IF LinesWithHex # {}
        THEN LET k == CHOOSE m \in LinesWithHex : \A n \in LinesWithHex : m <= n
             IN  IsLowerHexOf(cs.checksum, cs.lines[k])
        ELSE cs.checksum = None

C20_Witness ==
    /\ cs.done
    /\ Len(cs.lines) = MaxLines
    /\ 1 \in LinesWithHex
    /\ 1 \notin LinesWithHexAndName
    /\ 3 \in LinesWithHexAndName
    /\ 2 \notin LinesWithHexAndName
    /\ cs.checksum = HashA

(***************************************************************************)
(* Order of the installer and the key generation                           *)
(***************************************************************************)

\* C21: in a run of install_teacher that spawned the installer,
\* generate_veyon_keys is called only once the installer has exited (direct
\* launch, launch with a process handle, launch without a handle followed
\* by the fixed sleep).
C21_KeysAfterInstallerExit ==
    (run.script = "teacher" /\ run.spawned /\ pc \in {"g_attempt", "t_generated"})
        => run.exited

(***************************************************************************)
(* Elevation of the key distribution                                       *)
(***************************************************************************)

\* C22: when the direct copy of distribute_keys_to_veyon is denied in a
\* process that is already elevated, the function returns failure: the
\* operator is not asked, ShellExecuteW is not called, and no elevated
\* mirroring command is started.
C22_DeniedWhileElevated ==
    (DistLive /\ run.admin /\ dist.via \notin {"fail_fast", "direct"}
              /\ dist.result # "raise")
        => /\ dist.via = "denied_admin"
           /\ dist.result = "false"
           /\ dist.prompts = 0
           /\ dist.elevations = 0
           /\ dist.answer = None

\* the copy was denied after rmtree had removed the old keys, in an elevated
\* process
C22_Witness ==
    /\ pc = "s_distributed"
    /\ run.admin
    /\ dist.via = "denied_admin"
    /\ dist.result = "false"
    /\ dist.pre.exists
    /\ ~dist.post.exists
    /\ ~robocopy

\* the answers that count as consent: 'y' or 'yes' in any case and with
\* blanks around, or nothing
ConsentAnswers == { <<"y">>, <<"Y">>, <<" ", "Y", "e", "s", " ">>, <<>>, <<" ">> }

\* C23: ShellExecuteW for the elevated robocopy is called only after a
\* denial in a process that is not elevated and after the operator has
\* answered 'y', 'yes' or nothing to the one prompt; after any other answer
\* nothing is spawned and the function returns failure.
C23_ElevationOnlyOnConsent ==
    DistLive =>
        /\ dist.elevations <= 1
        /\ dist.prompts <= 1
        /\ (dist.elevations = 1 \/ dist.via = "robocopy")
               => (~run.admin /\ dist.prompts = 1 /\ dist.answer \in ConsentAnswers)
        /\ (dist.prompts = 1 /\ dist.answer \notin ConsentAnswers)
               => (dist.elevations = 0 /\ dist.via = "declined"
                   /\ dist.result = "false")
        /\ dist.prompts = 1 => ~run.admin

\* the operator answered " Yes " and the elevated robocopy was launched; and
\* an answer of "yep" is a refusal
C23_Witness ==
    /\ pc = "s_distributed"
    /\ ~run.admin
    /\ dist.answer = <<" ", "Y", "e", "s", " ">>
    /\ dist.via = "robocopy"
    /\ dist.result = "true"
    /\ robocopy

(***************************************************************************)
(* Elevation of the copy into the working directory                        *)
(***************************************************************************)

\* C24: within one call of copy_veyon_keys, copy_directory_elevated is
\* called at most once, and only after shutil.copytree was refused with a
\* PermissionError; when the helper fails, the call returns failure.
C24_CopyHelperOnce ==
    (pc = "t_copied" /\ cpy.called) =>
        /\ cpy.helpers <= 1
        /\ (cpy.helpers = 1) = (cpy.helper # "none")
        /\ cpy.helpers = 1 => cpy.denied
        /\ cpy.helper = "false" => ~cpy.result

\* the helper was called after a denial and exited with an error although
\* it had put both supervisor keys in place
C24_Witness ==
    /\ pc = "t_copied"
    /\ cpy.denied
    /\ cpy.helpers = 1
    /\ cpy.helper = "false"
    /\ SupervisorKeysExist(cpy.post)
    /\ ~cpy.result

(***************************************************************************)
(* Asset selection of the two installers                                   *)
(***************************************************************************)

\* C25: for a given release, install_student selects the asset that
\* install_teacher selects: the first one whose name or download URL holds
\* 'win64' in any case, an asset that matches by its URL only included.
C25_StudentSelectsAsTeacher ==
    (run.script = "student" /\ pc = "s_download")
        => net.asset = SelectAsset64(net.release.assets)

(***************************************************************************)
(* What the distribution puts on the student machine                       *)
(***************************************************************************)

\* C26: after distribute_keys_to_veyon has copied a staged directory that
\* install_teacher produced (private and public supervisor key), the
\* student's Veyon key directory holds the public key and no private key.
C26_PublicHalfOnly ==
    (pc = "s_distributed" /\ dist.via = "direct" /\ dist.result = "true"
       /\ SupervisorKeysExist(dist.src))
        => (DirHas(veyonKeys, "pub") /\ ~DirHas(veyonKeys, "priv"))

(***************************************************************************)
(* The delete command of generate_veyon_keys                               *)
(***************************************************************************)

\* C27: generate_veyon_keys runs `authkeys delete supervisor` only in an
\* attempt whose create command reported "already exist", and only when the
\* key directory then holds fewer than two files and not both supervisor key
\* files; it runs it at most once per attempt, hence at most max_attempts
\* times per call.
C27_DeleteOnlyWhenKeysMissing ==
    [][/\ gen'.deletes <= gen'.attempt
       /\ gen'.attempt <= max_attempts
       /\ gen'.deletes > gen.deletes =>
            /\ pc = "g_attempt"
            /\ gen'.deletes = gen.deletes + 1
            /\ gen'.attempt = gen.attempt + 1
            /\ gen'.already
            /\ ~(DirHas(veyonKeys, "priv") /\ DirHas(veyonKeys, "pub"))
            /\ Cardinality(FilesOf(veyonKeys)) < 2]_vars

\* every attempt of one call ran the delete command, and the call failed
C27_Witness ==
    /\ pc = "t_generated"
    /\ gen.deletes = max_attempts
    /\ gen.attempt = max_attempts
    /\ gen.by = "exhausted"
    /\ ~gen.result

(***************************************************************************)
(* Failure of the distribution and the keys that were there                *)
(***************************************************************************)

\* C28: when distribute_keys_to_veyon returns failure, the Veyon key
\* directory is as it was before the call.
C28_DistributeFailureAtomic ==
    (pc = "s_distributed" /\ dist.result = "false") => veyonKeys = dist.pre

(***************************************************************************)
(* What a successful purge leaves                                          *)
(***************************************************************************)

\* C29: when remove_programdata_elevated returns success, <PROGRAMDATA>/Veyon
\* no longer exists; in particular the direct removal of an elevated process
\* does not report success when files could not be deleted.
C29_PurgeSuccessMeansGone ==
    (pc = "u_done" /\ un.purge = "true" /\ un.purgeBy = "rmtree")
        => (~programData /\ ~veyonKeys.exists)

(***************************************************************************)
(* The menu loop                                                           *)
(***************************************************************************)

\* the scripts of each lib directory in the order of their names, without
\* logger.py and __init__.py
ExpectedScripts(lib) ==
    IF {"student", "teacher"} \subseteq lib
    THEN <<"info", "student", "teacher", "uninstall">>
    ELSE IF "uninstall" \in lib THEN <<"info", "uninstall">>
    ELSE <<>>

\* the function each script of lib is run by
ExpectedEntry ==
    [info |-> "show_computer_info", student |-> "install_student",
     teacher |-> "install_teacher", uninstall |-> "uninstall_veyon"]

\* the choices that write a number, and the number
NumericChoices ==
    { [text |-> <<"1">>, n |-> 1], [text |-> <<"2">>, n |-> 2],
      [text |-> <<"3">>, n |-> 3], [text |-> <<"4">>, n |-> 4],
      [text |-> <<"5">>, n |-> 5], [text |-> <<"1", "0">>, n |-> 10],
      [text |-> <<" ", "2", " ">>, n |-> 2], [text |-> <<"+", "3">>, n |-> 3],
      [text |-> <<"-", "1">>, n |-> 0 - 1], [text |-> <<"0", "0">>, n |-> 0],
      [text |-> <<"0", "1">>, n |-> 1] }

\* the choices that are a command of the menu: exit, reload, relaunch,
\* external script
CommandChoices == { <<"0">>, <<"r">>, <<"R">>, <<"a">>, <<"A">>, <<"e">>, <<"E">> }

\* an iteration of the loop took a choice from the operator
ChoiceTaken == pc = "menu" /\ menu.iter > 0 /\ menu.choice # None

\* what the numbered branch did with the choice: the script at the 1-based
\* position of the sorted script list for a number in range, nothing for
\* another number and for a text that is no number and no command
NumberedBranchRight ==
    (ChoiceTaken /\ menu.choice \notin CommandChoices) =>
        IF \E c \in NumericChoices : c.text = menu.choice
        THEN LET n == (CHOOSE c \in NumericChoices : c.text = menu.choice).n
                 expected == ExpectedScripts(menu.lib)
             IN  /\ menu.scripts \in {expected, <<>>}
                 /\ IF 1 <= n /\ n <= Len(menu.scripts)
                    THEN /\ menu.ran = expected[n]
                         /\ menu.entry = ExpectedEntry[menu.ran]
                    ELSE menu.ran = "none" /\ menu.entry = "none"
        ELSE menu.ran = "none" /\ menu.entry = "none"

\* an Exception of a script leaves the loop running, up to the next input()
ScriptExceptionSwallowed ==
    (pc = "menu" /\ menu.ran # "none" /\ menu.outcome \notin {"interrupt", "exit"})
        => /\ menu.outcome \in {"returned", "caught"}
           /\ menu.state = "loop" \/ menu.end \in {"interrupt", "input_error"}

\* C30 as stated: an exception raised by a script launched through
\* run_script never ends the loop; a numeric choice runs the script at that
\* 1-based position of the sorted lib script list (without logger.py and
\* __init__.py), an out-of-range or non-numeric choice runs none; the loop
\* ends only on choice '0', a keyboard interrupt, an error in the loop
\* itself, or a successful relaunch as administrator.
C30_MenuLoopAsStated ==
    /\ NumberedBranchRight
    /\ ScriptExceptionSwallowed
    /\ (pc = "menu" /\ menu.state = "ended") =>
          menu.end \in {"exit_choice", "interrupt", "input_error", "relaunch"}

\* C30, amended: an exception derived from Exception that a script launched
\* through run_script raises never ends the loop; a numeric choice runs the
\* script at that 1-based position of the sorted lib script list (without
\* logger.py and __init__.py), an out-of-range choice and a choice that is
\* neither a number nor a command run none; the loop ends only on choice
\* '0', a keyboard interrupt, an error in the loop itself, a successful
\* relaunch as administrator, or a SystemExit raised by a script.
C30_MenuLoop ==
    /\ NumberedBranchRight
    /\ ScriptExceptionSwallowed
    /\ (pc = "menu" /\ menu.state = "ended") =>
          menu.end \in {"exit_choice", "interrupt", "input_error", "relaunch",
                        "script_exit"}
    /\ (pc = "menu" /\ menu.end = "script_exit") =>
          (menu.ran = "external" /\ menu.outcome = "exit")

\* the operator typed " 2 ", install_student.py ran and raised, and the loop
\* goes on
C30_Witness ==
    /\ pc = "menu"
    /\ menu.lib = {"info", "student", "teacher", "uninstall", "logger", "init", "pycache"}
    /\ menu.choice = <<" ", "2", " ">>
    /\ menu.ran = "student"
    /\ menu.entry = "install_student"
    /\ menu.outcome = "caught"
    /\ menu.state = "loop"
    /\ menu.iter = 2

====
